---- MODULE Spec2Model ----
(***************************************************************************)
(* NathUI chat backend (src/src/chatloop.py): the command classifier, the  *)
(* round lifecycle, the tool-call orchestrator, the caches, the history    *)
(* converters and the export / import of a session.                        *)
(*                                                                         *)
(* Python strings are TLA+ strings handled character by character, Python  *)
(* values whose type the code inspects (None / dict / str / bool) are      *)
(* tagged records, Python dicts are sequences of <<key, value>> pairs in   *)
(* insertion order.                                                        *)
(***************************************************************************)
EXTENDS Integers, Sequences, FiniteSets, TLC

\* ------------------------------------------------------------------------
\* Python values
\* ------------------------------------------------------------------------

None == [type |-> "NoneType"]

PyStr(s) == [type |-> "str", val |-> s]

PyDict(d) == [type |-> "dict", val |-> d]

PyTrue == [type |-> "bool", val |-> TRUE]

\* dict.get(key): the value of the last pair stored under key, None if absent
DictGet(d, key) ==
    IF \E i \in 1..Len(d) : d[i][1] = key
    THEN d[CHOOSE i \in 1..Len(d) : d[i][1] = key /\ \A j \in (i+1)..Len(d) : d[j][1] # key][2]
    ELSE None

\* dict[key] = value
DictSet(d, key, value) ==
    IF \E i \in 1..Len(d) : d[i][1] = key
    THEN [i \in 1..Len(d) |-> IF d[i][1] = key THEN <<key, value>> ELSE d[i]]
    ELSE Append(d, <<key, value>>)

\* ------------------------------------------------------------------------
\* Python str methods
\* ------------------------------------------------------------------------

Whitespace == {" ", "\n", "\t"}

UpperCase == <<"A", "B", "C", "D", "E", "F", "G", "H", "I", "J", "K", "L", "M",
               "N", "O", "P", "Q", "R", "S", "T", "U", "V", "W", "X", "Y", "Z">>

LowerCase == <<"a", "b", "c", "d", "e", "f", "g", "h", "i", "j", "k", "l", "m",
               "n", "o", "p", "q", "r", "s", "t", "u", "v", "w", "x", "y", "z">>

\* s[a:b] with 0 <= a, b <= len(s)
Slice(s, a, b) == SubSeq(s, a + 1, b)

\* l[:n] on a list
Prefix(l, n) == SubSeq(l, 1, IF Len(l) < n THEN Len(l) ELSE n)

\* s[a:]
SliceFrom(s, a) == SubSeq(s, a + 1, Len(s))

CharAt(s, i) == SubSeq(s, i + 1, i + 1)

StartsWith(s, p) == Len(s) >= Len(p) /\ SubSeq(s, 1, Len(p)) = p

EndsWith(s, p) == Len(s) >= Len(p) /\ SubSeq(s, Len(s) - Len(p) + 1, Len(s)) = p

\* upper-case letter |-> lower-case letter, and the reverse
ToLower == [c \in {UpperCase[i] : i \in 1..26} |-> LowerCase[CHOOSE i \in 1..26 : UpperCase[i] = c]]

ToUpper == [c \in {LowerCase[i] : i \in 1..26} |-> UpperCase[CHOOSE i \in 1..26 : LowerCase[i] = c]]

LowerChar(c) == IF c \in DOMAIN ToLower THEN ToLower[c] ELSE c

RECURSIVE Lower(_)
Lower(s) == IF s = "" THEN "" ELSE LowerChar(Head(s)) \o Lower(Tail(s))

RECURSIVE LStrip(_)
LStrip(s) == IF s # "" /\ Head(s) \in Whitespace THEN LStrip(Tail(s)) ELSE s

RECURSIVE RStrip(_)
RStrip(s) ==
    IF s # "" /\ CharAt(s, Len(s) - 1) \in Whitespace
    THEN RStrip(Slice(s, 0, Len(s) - 1))
    ELSE s

Strip(s) == RStrip(LStrip(s))

\* s.find(sub, start): lowest index >= start at which sub occurs, -1 if none
Find(s, sub, start) ==
    LET hits == {i \in start..(Len(s) - Len(sub)) : Slice(s, i, i + Len(sub)) = sub}
    IN  IF hits = {} THEN -1 ELSE CHOOSE i \in hits : \A j \in hits : i <= j

\* s.replace(old, new): occurrences taken left to right, not overlapping
RECURSIVE Replace(_, _, _)
Replace(s, old, new) ==
    LET i == Find(s, old, 0)
    IN  IF i < 0 THEN s
        ELSE Slice(s, 0, i) \o new \o Replace(SliceFrom(s, i + Len(old)), old, new)

\* s.split(sep): the list of segments between the occurrences of sep
RECURSIVE Split(_, _)
Split(s, sep) ==
    LET i == Find(s, sep, 0)
    IN  IF i < 0 THEN <<s>>
        ELSE <<Slice(s, 0, i)>> \o Split(SliceFrom(s, i + Len(sep)), sep)

\* strutil.str_unquote
str_unquote(s) ==
    IF (StartsWith(s, "\"") /\ EndsWith(s, "\"")) \/ (StartsWith(s, "'") /\ EndsWith(s, "'"))
    THEN Slice(s, 1, Len(s) - 1)
    ELSE s

UpperChar(c) == IF c \in DOMAIN ToUpper THEN ToUpper[c] ELSE c

RECURSIVE Upper(_)
Upper(s) == IF s = "" THEN "" ELSE UpperChar(Head(s)) \o Upper(Tail(s))

Digits == <<"0", "1", "2", "3", "4", "5", "6", "7", "8", "9">>

\* str(n) for a natural number n
RECURSIVE IntToStr(_)
IntToStr(n) == IF n < 10 THEN Digits[n + 1] ELSE IntToStr(n \div 10) \o Digits[(n % 10) + 1]

PyList(l) == [type |-> "list", val |-> l]

\* an exception raised by a callee
Fault == [type |-> "Exception"]

\* ------------------------------------------------------------------------
\* The outside world: file system, completion service, tools
\* ------------------------------------------------------------------------

ExistingFiles == {"a.txt"}

ExistingDirs == {"docs"}

UrlSchemes == {"http://", "https://", "ftp://", "udp://"}

\* visitor.is_file: 0 missing file URL, 1 file, 2 url, 3 folder, -1 other
is_file(anything) ==
    LET s == Strip(anything)
    IN  IF StartsWith(Lower(s), "file://")
        THEN LET path == SliceFrom(s, 7)
             IN  IF path \in ExistingDirs THEN 3
                 ELSE IF path \in ExistingFiles THEN 1 ELSE 0
        ELSE IF \E p \in UrlSchemes : StartsWith(Lower(s), p) THEN 2
        ELSE IF s \in ExistingDirs THEN 3
        ELSE IF s \in ExistingFiles THEN 1
        ELSE -1

max_len == 65536

\* WebCrawler.truncate
truncate(content, maxlen) == Slice(content, 0, IF Len(content) < maxlen THEN Len(content) ELSE maxlen)

RECURSIVE concat_from(_, _)
concat_from(search_result, i) ==
    IF i > Len(search_result) THEN ""
    ELSE "###Document No" \o IntToStr(i) \o "\n\n" \o search_result[i]
         \o concat_from(search_result, i + 1)

\* WebCrawler.concat
concat(search_result) == truncate(concat_from(search_result, 1), max_len)

\* ------------------------------------------------------------------------
\* Chatloop: the session object
\* ------------------------------------------------------------------------

\* The texts below are the ones of the language setting "EN"; the setting "CN"
\* selects texts in Chinese at the same places and changes nothing else.
default_sysprompt == "You are an AI assistant to answer the user's questions precisely and concisely."

visit_prompt == "Giventhe following document or website that the user provided, answer in detail and answer the question using Markdown. The document may be confusing and unformatted, please think deeply and extract useful content."

search_prompt == "Summarize the following content in detail and answer the question using Markdown. Ignore documents you cannot read. "

\* what display_intro prints into the command buffer (debug mode), first line
intro_text == "Hi! I am your private AI assistant. How can I help you, my master? @NathMath Nath-UI\n"

magic_tag == "NathUI~Savefile~"

Msg(role, content) == [role |-> role, content |-> content]

\* Chatloop.__init__
Chatloop_init ==
    [ ongoing           |-> FALSE,
      system_prompt     |-> default_sysprompt,
      use_tools         |-> FALSE,
      default_table     |-> "user_primary",
      db_path           |-> "./__database__/user_database.db",
      db                |-> << <<"./__database__/user_database.db", << >> >> >>,
      visit_cache       |-> << >>,
      search_cache      |-> << >>,
      command_buffer    |-> "",
      round_number      |-> 0,
      responses         |-> << >>,
      messages          |-> <<Msg("system", default_sysprompt)>>,
      original_messages |-> <<Msg("system", default_sysprompt)>> ]

\* The result of a call on the session: the session afterwards, the value
\* returned (Fault when the call raised), the crawler queries, the resolver
\* calls and the completion requests the call made.
Outcome(cl, ret) ==
    [cl |-> cl, ret |-> ret, raised |-> FALSE, crawls |-> << >>, resolves |-> << >>, requests |-> 0]

Raised(cl) ==
    [cl |-> cl, ret |-> Fault, raised |-> TRUE, crawls |-> << >>, resolves |-> << >>, requests |-> 0]

\* ------------------------------------------------------------------------
\* The storage collaborator: SQLiteClient, TransactionManager, SQLiteParser
\* ------------------------------------------------------------------------

\* key in d
HasKey(d, key) == \E i \in 1..Len(d) : d[i][1] = key

\* d[key] of a dict that holds key
Item(d, key) == d[CHOOSE i \in 1..Len(d) : d[i][1] = key][2]

\* the tables of the database file the session's client is open on; a table
\* is the dict of its rows, content by key
Tables(cl) == IF HasKey(cl.db, cl.db_path) THEN Item(cl.db, cl.db_path) ELSE << >>

\* the columns of the table the session creates
Columns == <<"key", "content", "version">>

\* the record the insert and update arms hand to the parser
Record(key, content) == << <<"key", key>>, <<"content", content>>, <<"version", 1>> >>

\* the result of a call on the storage: the tables afterwards, what the call
\* returned, whether it raised
Stored(tables, ret) == [tables |-> tables, ret |-> ret, raised |-> FALSE]

Failed(tables) == [tables |-> tables, ret |-> << >>, raised |-> TRUE]

\* TransactionManager.execute of an INSERT on the rows the scope works on:
\* a key that is already stored violates the primary key, the statement
\* changes nothing and QueryExecutionError is raised
TransactionManager_execute(rows, record) ==
    IF HasKey(rows, Item(record, "key"))
    THEN [rows |-> rows, raised |-> TRUE]
    ELSE [rows |-> Append(rows, <<Item(record, "key"), Item(record, "content")>>),
          raised |-> FALSE]

\* a scope that commits however its body was left
TransactionManager_exit_commit(before, after, exc_type) == after

\* TransactionManager.__exit__: before are the rows when the scope was
\* entered, after the rows its statements produced
TransactionManager_exit(before, after, exc_type) ==
    IF exc_type THEN before ELSE after

\* the body of the scope of SQLiteParser.insert from the i-th row on: a row
\* whose statement raises is logged and left out
RECURSIVE insert_body(_, _, _, _)
insert_body(rows, validated_data, i, row_ids) ==
    IF i > Len(validated_data) THEN [rows |-> rows, ret |-> row_ids]
    ELSE IF TransactionManager_execute(rows, validated_data[i]).raised
    THEN insert_body(rows, validated_data, i + 1, row_ids)
    ELSE insert_body(TransactionManager_execute(rows, validated_data[i]).rows,
                     validated_data, i + 1, Append(row_ids, 1))

\* the scope of SQLiteParser.insert on the rows of the table
insert_scope(rows, data) ==
    [rows |-> TransactionManager_exit(rows, insert_body(rows, data, 1, << >>).rows, FALSE),
     ret  |-> insert_body(rows, data, 1, << >>).ret]

\* SQLiteParser.insert: an unknown table (KeyError), an empty batch and a
\* record without one of the columns (ValueError) raise before the scope
SQLiteParser_insert(tables, table, data) ==
    IF ~HasKey(tables, table) THEN Failed(tables)
    ELSE IF data = << >> THEN Failed(tables)
    ELSE IF \E i \in 1..Len(data), c \in 1..Len(Columns) : ~HasKey(data[i], Columns[c])
    THEN Failed(tables)
    ELSE Stored(DictSet(tables, table, insert_scope(Item(tables, table), data).rows),
                insert_scope(Item(tables, table), data).ret)

\* `label in series` for a column of a DataFrame: the labels of a Series are
\* the positions of its rows
series_contains(series, label) ==
    label.type = "int" /\ label.val \in 0..(Len(series) - 1)

\* UPDATE ... WHERE key = ? on the rows of a table
sql_update(rows, key, content) ==
    [i \in 1..Len(rows) |-> IF rows[i][1] = key THEN <<key, content>> ELSE rows[i]]

\* the body of the scope of SQLiteParser.update from the i-th record on.
\* rows are the rows as committed (the inserts the body falls back on use a
\* scope of their own), work the rows with the updates of this scope,
\* pkvalues the keys fetched before the scope. An empty pkvalues has no key
\* column (KeyError); either way the fallback is insert([record])[0], which
\* raises IndexError when the insert stored nothing, and is tried once more
\* before the fault leaves the scope.
RECURSIVE update_body(_, _, _, _, _, _)
update_body(rows, work, pkvalues, records, i, affected_rows) ==
    IF i > Len(records) THEN [rows |-> rows, work |-> work, ret |-> affected_rows, raised |-> FALSE]
    ELSE IF pkvalues # << >> /\ series_contains(pkvalues, PyStr(Item(records[i], "key")))
    THEN update_body(rows,
                     sql_update(work, Item(records[i], "key"), Item(records[i], "content")),
                     pkvalues, records, i + 1,
                     Append(affected_rows, IF HasKey(work, Item(records[i], "key")) THEN 1 ELSE 0))
    ELSE IF insert_scope(rows, <<records[i]>>).ret = << >>
    THEN [rows |-> rows, work |-> work, ret |-> affected_rows, raised |-> TRUE]
    ELSE update_body(insert_scope(rows, <<records[i]>>).rows,
                     insert_scope(work, <<records[i]>>).rows,
                     pkvalues, records, i + 1, Append(affected_rows, 1))

\* the scope of SQLiteParser.update: u is the outcome of its body
update_scope(tables, table, u) ==
    [tables |-> DictSet(tables, table, TransactionManager_exit(u.rows, u.work, u.raised)),
     ret    |-> u.ret,
     raised |-> u.raised]

\* SQLiteParser.update with coerce = True
SQLiteParser_update(tables, table, data) ==
    IF ~HasKey(tables, table) THEN Failed(tables)
    ELSE IF data = << >> THEN Failed(tables)
    ELSE update_scope(tables, table,
                      update_body(Item(tables, table), Item(tables, table),
                                  [i \in 1..Len(Item(tables, table)) |-> Item(tables, table)[i][1]],
                                  data, 1, << >>))

\* the body of a transaction scope that executes the INSERT of each record
\* and lets a fault of a statement leave it; raises says whether the body
\* raises after its statements
RECURSIVE scope_body(_, _, _, _)
scope_body(rows, records, i, raises) ==
    IF i > Len(records) THEN [rows |-> rows, raised |-> raises]
    ELSE IF TransactionManager_execute(rows, records[i]).raised
    THEN [rows |-> rows, raised |-> TRUE]
    ELSE scope_body(TransactionManager_execute(rows, records[i]).rows, records, i + 1, raises)

\* SQLiteParser.create_table with safemode off: "already exists" raises,
\* which the callers swallow
create_table(tables, table) ==
    IF HasKey(tables, table) THEN tables ELSE Append(tables, <<table, << >> >>)

\* ------------------------------------------------------------------------
\* The arms of the classifier
\* ------------------------------------------------------------------------

\* handle_visit with a cache test on the truth value of the entry
handle_visit_truthy(cl, splited_in, env) ==
    LET splited == str_unquote(Strip(splited_in))
        content_type == is_file(splited)
        cached == DictGet(cl.visit_cache, splited)
    IN  IF content_type \in {1, 2, 3}
        THEN IF cached # None /\ cached.val # ""
             THEN Outcome(cl, cached)
             ELSE [Outcome([cl EXCEPT !.visit_cache = DictSet(@, splited, env.content)],
                           env.content)
                      EXCEPT !.resolves = <<splited>>]
        ELSE Outcome(cl, None)

\* Chatloop.handle_visit: the three resolvers share the cache logic
handle_visit(cl, splited_in, env) ==
    LET splited == str_unquote(Strip(splited_in))
        content_type == is_file(splited)
        cached == DictGet(cl.visit_cache, splited)
    IN  IF content_type \in {1, 2, 3}
        THEN IF cached # None
             THEN Outcome(cl, cached)
             ELSE IF env.content = Fault
                  THEN [Raised(cl) EXCEPT !.resolves = <<splited>>]
                  ELSE [Outcome([cl EXCEPT !.visit_cache = DictSet(@, splited, env.content)],
                                env.content)
                           EXCEPT !.resolves = <<splited>>]
        ELSE Outcome(cl, None)

\* the visit arms of handle_special_commands after the query is cut out
visit_arm(cl, visit_query, prompt, env) ==
    LET v == handle_visit(cl, visit_query, env)
    IN  IF v.raised THEN v
        ELSE IF v.ret = None THEN [v EXCEPT !.ret = PyDict(<< >>)]
        ELSE [v EXCEPT !.ret = PyStr(prompt \o visit_query \o "? " \o v.ret.val
                                      \o "{Document} : " \o v.ret.val)]

\* the search arms without the clean-up of the query
search_arm_unstripped(cl, search_query, prompt, env) ==
    [Outcome([cl EXCEPT !.search_cache = DictSet(@, search_query, env.crawl)],
             PyStr(prompt \o search_query \o "? " \o concat(env.crawl.val)))
        EXCEPT !.crawls = <<search_query>>]

\* a search that keeps its result in the cache of the visits as well
search_arm_shared(cl, search_query, prompt, env) ==
    LET clean_query == str_unquote(Strip(search_query))
        cached == DictGet(cl.search_cache, clean_query)
        hit == cached # None /\ Len(clean_query) > 0
    IN  IF hit
        THEN Outcome(cl, PyStr(prompt \o clean_query \o "? " \o concat(cached.val)))
        ELSE IF env.crawl = Fault
             THEN [Raised(cl) EXCEPT !.crawls = <<clean_query>>]
             ELSE [Outcome([cl EXCEPT !.search_cache = DictSet(@, clean_query, env.crawl),
                                      !.visit_cache = DictSet(@, clean_query, PyStr(concat(env.crawl.val)))],
                           PyStr(prompt \o clean_query \o "? " \o concat(env.crawl.val)))
                      EXCEPT !.crawls = <<clean_query>>]

\* the search arms of handle_special_commands after the query is cut out
search_arm(cl, search_query, prompt, env) ==
    LET clean_query == str_unquote(Strip(search_query))
        cached == DictGet(cl.search_cache, clean_query)
        hit == cached # None /\ Len(clean_query) > 0
    IN  IF hit
        THEN Outcome(cl, PyStr(prompt \o clean_query \o "? " \o concat(cached.val)))
        ELSE IF env.crawl = Fault
             THEN [Raised(cl) EXCEPT !.crawls = <<clean_query>>]
             ELSE [Outcome([cl EXCEPT !.search_cache = DictSet(@, clean_query, env.crawl)],
                           PyStr(prompt \o clean_query \o "? " \o concat(env.crawl.val)))
                      EXCEPT !.crawls = <<clean_query>>]

\* Chatloop.handle_locate followed by the descriptor of the locate arm
locate_arm(cl, dbfilepath, table_name, env) ==
    IF env.storage = Fault
    THEN Raised([cl EXCEPT !.default_table = str_unquote(Strip(table_name))])
    ELSE Outcome([cl EXCEPT !.default_table = str_unquote(Strip(table_name)),
                            !.db_path = str_unquote(Strip(dbfilepath)),
                            !.db = DictSet(@, str_unquote(Strip(dbfilepath)),
                                           create_table(IF HasKey(@, str_unquote(Strip(dbfilepath)))
                                                        THEN Item(@, str_unquote(Strip(dbfilepath)))
                                                        ELSE << >>,
                                                        Strip(str_unquote(Strip(table_name)))))],
                 PyDict(<< <<"\\usage", PyStr("\\locate")>>,
                           <<"to", PyStr(dbfilepath \o "->" \o table_name)>> >>))

\* the connect arms: handle_connect swallows "already exists"
\* (QueryExecutionError) and lets any other storage fault through
connect_arm(cl, table, env) ==
    IF env.storage = Fault
    THEN Raised([cl EXCEPT !.default_table = table])
    ELSE Outcome([cl EXCEPT !.default_table = table,
                            !.db = DictSet(@, cl.db_path, create_table(Tables(cl), Strip(table)))],
                 PyDict(<< <<"\\usage", PyStr("\\connect")>>, <<"to", PyStr(table)>> >>))

\* the insert and update arms: handle_insert / handle_update swallow every
\* fault of the parser
upsert_arm(cl, usage, pkey, content) ==
    Outcome([cl EXCEPT !.db =
                DictSet(@, cl.db_path,
                        IF usage = "\\insert"
                        THEN SQLiteParser_insert(Tables(cl), cl.default_table,
                                                 <<Record(Strip(pkey), Strip(content))>>).tables
                        ELSE SQLiteParser_update(Tables(cl), cl.default_table,
                                                 <<Record(Strip(pkey), Strip(content))>>).tables)],
            PyDict(<< <<"\\usage", PyStr(usage)>>, <<"key", PyStr(pkey)>> >>))

\* the select arms: a result that is not text makes the concatenation raise,
\* which the arm catches
select_arm(cl, prompt, env) ==
    IF env.selected.type = "str"
    THEN Outcome(cl, PyStr("[Answer Question]" \o prompt
                           \o " based on [Document for Reference] " \o env.selected.val))
    ELSE Outcome(cl, PyDict(<< >>))

\* the query arms with Chatloop.handle_query
query_arm(cl, query_clause, prompt, env) ==
    LET select_query == Strip(query_clause)
    IN  IF StartsWith(Upper(select_query), "SELECT")
        THEN select_arm(cl, prompt, env)
        ELSE IF env.storage = Fault THEN Outcome(cl, PyDict(<< >>))
        ELSE Outcome(cl, PyDict(<< <<"\\usage", PyStr("\\query")>>,
                                   <<"query", PyStr(select_query)>> >>))

\* a test for the token anywhere in the input
StartsAnywhere(lowered, tok) == Find(lowered, tok, 0) >= 0

\* the test that opens every multi-argument arm, on the lower-cased input:
\* it starts with the token
Starts(lowered, tok) == StartsWith(lowered, tok)

\* a search for the token that does not skip the opening one
AgainFromStart(lowered, tok) == Find(lowered, tok, 0)

\* the position at which the token occurs again, -1 if it does not
Again(lowered, tok) == Find(lowered, tok, Len(tok))

\* `a, b, c = user_input.split(tok)` inside try / except: the three segments,
\* or << >> when the unpacking raises
Split3(user_input, tok) ==
    LET segs == Split(user_input, tok)
    IN  IF Len(segs) = 3 THEN segs ELSE << >>

Invalid(cl) == Outcome(cl, PyDict(<< >>))

Is(lowered, word) == lowered = "\\" \o word \/ lowered = "\\\\" \o word

\* Chatloop.handle_special_commands
handle_special_commands(cl0, raw_input, env) ==
    LET user_input == Replace(Strip(raw_input), "\\\\\\\\", "\\\\")
        cl == [cl0 EXCEPT !.command_buffer = ""]
        lowered == Lower(user_input)
        Bare(tok) == Starts(lowered, tok) /\ Again(lowered, tok) < 0
        Delim(tok) == Starts(lowered, tok) /\ Again(lowered, tok) > 0
        segs(tok) == Split3(user_input, tok)
    IN  IF Is(lowered, "quit") THEN Outcome(cl, None)
        ELSE IF Is(lowered, "syntax")
        THEN Outcome([cl EXCEPT !.command_buffer = intro_text],
                     PyDict(<< <<"\\usage", PyStr("\\syntax")>> >>))
        ELSE IF Is(lowered, "delete")
        THEN Outcome(IF Len(cl.messages) > 1
                     THEN [cl EXCEPT !.messages = Prefix(@, 1),
                                     !.original_messages = Prefix(@, 1)]
                     ELSE cl,
                     PyDict(<< <<"\\usage", PyStr("\\delete")>> >>))
        ELSE IF Is(lowered, "deleteall")
        THEN IF Len(cl.messages) = 0 THEN Raised(cl)
             ELSE IF Len(cl.original_messages) = 0
             THEN Raised([cl EXCEPT !.messages = <<@[1]>>])
             ELSE Outcome([cl EXCEPT !.messages = <<@[1]>>,
                                     !.original_messages = <<@[1]>>],
                          PyDict(<< <<"\\usage", PyStr("\\deleteall")>> >>))
        ELSE IF Is(lowered, "toolcall")
        THEN Outcome([cl EXCEPT !.use_tools = ~@],
                     PyDict(<< <<"\\usage", PyStr("\\toolcall")>>,
                               <<"\\result", PyStr(IF cl.use_tools THEN "False" ELSE "True")>> >>))
        \* visit
        ELSE IF Bare("\\visit")
        THEN visit_arm(cl, Strip(SliceFrom(user_input, 7)), visit_prompt, env)
        ELSE IF Bare("\\\\visit")
        THEN visit_arm(cl, Strip(SliceFrom(user_input, 8)), visit_prompt, env)
        ELSE IF Delim("\\visit")
        THEN IF segs("\\visit") = << >> THEN Invalid(cl)
             ELSE visit_arm(cl, segs("\\visit")[2], segs("\\visit")[3], env)
        ELSE IF Delim("\\\\visit")
        THEN IF segs("\\\\visit") = << >> THEN Invalid(cl)
             ELSE visit_arm(cl, segs("\\\\visit")[2], segs("\\\\visit")[3], env)
        \* search
        ELSE IF Bare("\\search")
        THEN search_arm(cl, Strip(SliceFrom(user_input, 7)), search_prompt, env)
        ELSE IF Bare("\\\\search")
        THEN search_arm(cl, Strip(SliceFrom(user_input, 8)), search_prompt, env)
        ELSE IF Delim("\\search")
        THEN IF segs("\\search") = << >> THEN Invalid(cl)
             ELSE search_arm(cl, segs("\\search")[2], segs("\\search")[3], env)
        ELSE IF Delim("\\\\search")
        THEN IF segs("\\\\search") = << >> THEN Invalid(cl)
             ELSE search_arm(cl, segs("\\\\search")[2], segs("\\\\search")[3], env)
        \* locate
        ELSE IF Delim("\\locate")
        THEN IF segs("\\locate") = << >> THEN Invalid(cl)
             ELSE locate_arm(cl, segs("\\locate")[2], segs("\\locate")[3], env)
        ELSE IF Delim("\\\\locate")
        THEN IF segs("\\\\locate") = << >> THEN Invalid(cl)
             ELSE locate_arm(cl, segs("\\\\locate")[2], segs("\\\\locate")[3], env)
        \* connect
        ELSE IF Bare("\\connect") \/ Bare("\\\\connect")
        THEN connect_arm(cl, cl.default_table, env)
        ELSE IF Delim("\\connect")
        THEN IF segs("\\connect") = << >> THEN Invalid(cl)
             ELSE connect_arm(cl, Strip(segs("\\connect")[2]), env)
        ELSE IF Delim("\\\\connect")
        THEN IF segs("\\\\connect") = << >> THEN Invalid(cl)
             ELSE connect_arm(cl, Strip(segs("\\\\connect")[2]), env)
        \* insert
        ELSE IF Delim("\\insert")
        THEN IF segs("\\insert") = << >> THEN Invalid(cl)
             ELSE upsert_arm(cl, "\\insert", segs("\\insert")[2], segs("\\insert")[3])
        ELSE IF Delim("\\\\insert")
        THEN IF segs("\\\\insert") = << >> THEN Invalid(cl)
             ELSE upsert_arm(cl, "\\insert", segs("\\\\insert")[2], segs("\\\\insert")[3])
        \* update
        ELSE IF Delim("\\update")
        THEN IF segs("\\update") = << >> THEN Invalid(cl)
             ELSE upsert_arm(cl, "\\update", segs("\\update")[2], segs("\\update")[3])
        ELSE IF Delim("\\\\update")
        THEN IF segs("\\\\update") = << >> THEN Invalid(cl)
             ELSE upsert_arm(cl, "\\update", segs("\\\\update")[2], segs("\\\\update")[3])
        \* select
        ELSE IF Delim("\\select")
        THEN IF segs("\\select") = << >> THEN Invalid(cl)
             ELSE select_arm(cl, segs("\\select")[3], env)
        ELSE IF Delim("\\\\select")
        THEN IF segs("\\\\select") = << >> THEN Invalid(cl)
             ELSE select_arm(cl, segs("\\\\select")[3], env)
        \* query
        ELSE IF Delim("\\query")
        THEN IF segs("\\query") = << >> THEN Invalid(cl)
             ELSE query_arm(cl, segs("\\query")[2], segs("\\query")[3], env)
        ELSE IF Delim("\\\\query")
        THEN IF segs("\\\\query") = << >> THEN Invalid(cl)
             ELSE query_arm(cl, segs("\\\\query")[2], segs("\\\\query")[3], env)
        ELSE Outcome(cl, PyStr(user_input))

\* ------------------------------------------------------------------------
\* Rounds
\* ------------------------------------------------------------------------

\* Chatloop.process_response with the "No Renderer" device
process_response(cl, content, append_response) ==
    IF append_response
    THEN [cl EXCEPT !.messages = Append(@, Msg("assistant", content)),
                    !.original_messages = Append(@, Msg("assistant", content))]
    ELSE cl

\* json.dumps of a tool result (a dict of strings, or a string)
RECURSIVE dumps_pairs(_, _)
dumps_pairs(d, i) ==
    IF i > Len(d) THEN ""
    ELSE (IF i > 1 THEN ", " ELSE "")
         \o "\"" \o d[i][1] \o "\": "
         \o (IF d[i][2] = None THEN "null" ELSE "\"" \o d[i][2].val \o "\"")
         \o dumps_pairs(d, i + 1)

json_dumps(result) ==
    IF result.type = "dict" THEN "{" \o dumps_pairs(result.val, 1) \o "}"
    ELSE "\"" \o result.val \o "\""

\* the registry Chatloop.tool_dict
tool_dict == {"web_search_on_internet", "data_visitor_online_or_local",
              "local_file_opener", "python_code_executor"}

\* `result` before the loop of handle_triggered_tool_calls assigns it
Unbound == [type |-> "unbound"]

ToolMsg(result, cid) == [role |-> "tool", content |-> json_dumps(result), tool_call_id |-> cid]

\* Chatloop.handle_triggered_tool_calls from the i-th invocation on; results[i]
\* is what the i-th handler returns (Fault when it raises)
RECURSIVE tool_loop(_, _, _, _, _)
tool_loop(cl, tool_calls, results, i, result) ==
    IF i > Len(tool_calls)
    THEN IF result = Unbound THEN Raised(cl) ELSE Outcome(cl, result)
    ELSE LET tool_call == tool_calls[i]
         IN  IF tool_call.type # "function"
             THEN tool_loop(cl, tool_calls, results, i + 1, result)
             ELSE IF tool_call.function.name \notin tool_dict
             THEN tool_loop(cl, tool_calls, results, i + 1, PyStr(""))
             ELSE IF results[i] = Fault
             THEN Raised(cl)
             ELSE tool_loop([cl EXCEPT !.messages = Append(@, ToolMsg(results[i], tool_call.id)),
                                       !.original_messages = Append(@, ToolMsg(results[i], tool_call.id))],
                            tool_calls, results, i + 1, results[i])

handle_triggered_tool_calls(cl, tool_calls, results) ==
    tool_loop(cl, tool_calls, results, 1, Unbound)

\* the assistant message that records the invocations
CallsMsg(tool_calls) ==
    [role |-> "assistant",
     tool_calls |-> [i \in 1..Len(tool_calls) |->
                        [id |-> tool_calls[i].id, type |-> tool_calls[i].type,
                         function |-> tool_calls[i].function]]]

\* `if tool_calls:` on what the completion service returned
Truthy(tool_calls) == tool_calls # None /\ tool_calls.val # << >>

\* the end of the tool branch with a follow-up request after every invocation
after_tool_calls_followup(t, env) ==
    IF t.raised THEN [t EXCEPT !.requests = 1]
    ELSE IF env.second = Fault THEN [Raised(t.cl) EXCEPT !.requests = 2]
    ELSE [Outcome(t.cl, <<env.second.tool_calls, env.second.content>>) EXCEPT !.requests = 2]

\* the end of the tool branch of request_onetime_response: t is the outcome
\* of handle_triggered_tool_calls
after_tool_calls(t, env) ==
    IF t.raised THEN [t EXCEPT !.requests = 1]
    \* result.get on a str raises AttributeError
    ELSE IF t.ret.type # "dict" THEN [Raised(t.cl) EXCEPT !.requests = 1]
    ELSE IF DictGet(t.ret.val, "response") # None
    THEN [Outcome(t.cl, <<None, DictGet(t.ret.val, "response").val>>) EXCEPT !.requests = 1]
    ELSE IF env.second = Fault THEN [Raised(t.cl) EXCEPT !.requests = 2]
    ELSE [Outcome(t.cl, <<env.second.tool_calls, env.second.content>>) EXCEPT !.requests = 2]

\* the two histories with the assistant message of the invocations appended
with_calls(cl, tool_calls) ==
    [cl EXCEPT !.messages = Append(@, CallsMsg(tool_calls)),
               !.original_messages = Append(@, CallsMsg(tool_calls))]

\* Chatloop.request_onetime_response; ret is <<tool_calls, content>>.
\* env.first and env.second are the answers of the completion service to
\* the first and to the follow-up request (Fault when the request raises).
request_onetime_response(cl, env) ==
    IF env.first = Fault THEN [Raised(cl) EXCEPT !.requests = 1]
    ELSE IF ~cl.use_tools \/ ~Truthy(env.first.tool_calls)
    THEN [Outcome(cl, <<env.first.tool_calls, env.first.content>>) EXCEPT !.requests = 1]
    ELSE after_tool_calls(
             handle_triggered_tool_calls(with_calls(cl, env.first.tool_calls.val),
                                         env.first.tool_calls.val, env.results),
             env)

\* the text api_chat_once records for a control descriptor (the backquotes
\* around it are written ' here)
control_response(cl, d) ==
    LET usage == DictGet(d, "\\usage").val
    IN  IF usage = "\\syntax" THEN cl.command_buffer
        ELSE IF usage = "\\delete" THEN "'Previous Chat Deleted'"
        ELSE IF usage = "\\deleteall" THEN "'Chat History Deleted'"
        ELSE IF usage = "\\toolcall"
        THEN "'Toolcall switched to " \o DictGet(d, "\\result").val \o "'"
        ELSE IF usage = "\\locate"
        THEN "'Relocated and connected to database: " \o DictGet(d, "to").val \o "'"
        ELSE IF usage = "\\connect"
        THEN "'Connected to table: " \o DictGet(d, "to").val \o "'"
        ELSE IF usage = "\\insert"
        THEN "'Inserted by key: " \o DictGet(d, "key").val \o "'"
        ELSE IF usage = "\\update"
        THEN "'Updated by key: " \o DictGet(d, "key").val \o "'"
        ELSE IF usage = "\\query"
        THEN "'Executed SQL Query: " \o DictGet(d, "query").val \o "'"
        ELSE "'Negative. Errors Happened Internally'"

\* next_step inside api_chat_once, then the increment of the round counter
next_step(cl, response, append_control_response) ==
    [process_response([cl EXCEPT !.responses = Append(@, <<PyStr(""), response>>)],
                      response, append_control_response)
        EXCEPT !.round_number = @ + 1]

\* the try / except block of api_chat_once after the completion request: r
\* is the outcome of request_onetime_response
record_completion(r) ==
    LET tool_calls == r.ret[1]
        response == r.ret[2]
        cl1 == [r.cl EXCEPT !.responses = Append(@, <<tool_calls, response>>)]
    IN  IF r.raised
        THEN [r EXCEPT !.cl.round_number = @ + 1, !.ret = None, !.raised = FALSE]
        ELSE IF Truthy(tool_calls)
        \* self.process_tool_calls does not exist: AttributeError, caught
        THEN [r EXCEPT !.cl = [cl1 EXCEPT !.round_number = @ + 1], !.ret = None]
        ELSE [r EXCEPT !.cl = [process_response(cl1, response, TRUE) EXCEPT !.round_number = @ + 1],
                       !.ret = PyTrue]

\* api_chat_once from the completion request on
chat_section(cl, env) == record_completion(request_onetime_response(cl, env))

\* the user message appended before the classification is looked at
append_front(h, user_input) ==
    [h.cl EXCEPT !.messages = Append(@, Msg("user", IF h.ret.type = "dict" THEN user_input
                                                    ELSE h.ret.val)),
                 !.original_messages = Append(@, Msg("user", user_input))]

\* the user message appended before the chat section
append_back(cl, h, user_input) ==
    [cl EXCEPT !.messages = Append(@, Msg("user", h.ret.val)),
               !.original_messages = Append(@, Msg("user", user_input))]

\* the chat section with the crawls and resolutions of the classification
chat_after(h, c) == [c EXCEPT !.crawls = h.crawls, !.resolves = h.resolves]

\* api_chat_once after the classification: h is the outcome of
\* handle_special_commands, front the session after the front append
dispatch(h, front, user_input, chat, append_input_front, append_control_response, env) ==
    IF h.ret = None
    THEN [h EXCEPT !.cl.ongoing = FALSE]
    ELSE IF h.ret.type = "dict"
    THEN IF DictGet(h.ret.val, "\\usage") = None
         THEN [h EXCEPT !.cl = front, !.ret = None]
         ELSE [h EXCEPT !.cl = next_step(front, control_response(front, h.ret.val),
                                         append_control_response),
                        !.ret = None]
    ELSE IF ~chat
    THEN [h EXCEPT !.cl = IF append_input_front THEN front
                          ELSE append_back(front, h, user_input),
                   !.ret = PyTrue]
    ELSE chat_after(h, chat_section(IF append_input_front THEN front
                                    ELSE append_back(front, h, user_input), env))

\* `with self.sqlite_client.transaction() as tx:` on the current table of
\* the session: body is the outcome of the body of the scope
scoped(cl, body) ==
    [Outcome([cl EXCEPT !.db = DictSet(@, cl.db_path,
                  DictSet(Tables(cl), cl.default_table,
                          TransactionManager_exit(Item(Tables(cl), cl.default_table),
                                                  body.rows, body.raised)))],
             None)
        EXCEPT !.raised = body.raised]

\* api_chat_once once the input is classified
classified(h, user_input, chat, append_input_front, append_control_response, env) ==
    IF h.raised THEN h
    ELSE dispatch(h, IF append_input_front /\ h.ret # None THEN append_front(h, user_input) ELSE h.cl,
                  user_input, chat, append_input_front, append_control_response, env)

\* Chatloop.api_chat_once with an external input
api_chat_once(cl0, user_input, chat, append_input_front, append_control_response, env) ==
    classified(handle_special_commands(cl0, user_input, env),
               user_input, chat, append_input_front, append_control_response, env)

\* Chatloop.api_chat_once without an external input: the line typed at the
\* console is stripped and taken as the input of a chat round
api_chat_once_console(cl0, line, env) ==
    api_chat_once(cl0, Strip(line), TRUE, FALSE, FALSE, env)

\* the cut of Chatloop.clear_lastround: the index of the last user message,
\* 1 if there is none
lastround_cut(msgs) ==
    LET users == {i \in 1..Len(msgs) : msgs[i].role = "user"}
    IN  IF users = {} THEN 1
        ELSE (CHOOSE i \in users : \A j \in users : j <= i) - 1

\* Chatloop.clear_lastround
clear_lastround(cl) ==
    [cl EXCEPT !.responses = IF Len(@) > 0 THEN SubSeq(@, 1, Len(@) - 1) ELSE @,
               !.messages = IF Len(@) > 1 THEN SubSeq(@, 1, lastround_cut(@)) ELSE @,
               !.original_messages = IF Len(@) > 1 THEN SubSeq(@, 1, lastround_cut(@)) ELSE @]

\* a clear that also starts the round counter again
clear_messages_counted(cl, keep_system_prompt) ==
    [cl EXCEPT !.system_prompt = default_sysprompt,
               !.responses = << >>,
               !.round_number = 0,
               !.messages = IF keep_system_prompt THEN <<Msg("system", default_sysprompt)>> ELSE << >>,
               !.original_messages = IF keep_system_prompt THEN <<Msg("system", default_sysprompt)>>
                                     ELSE << >>]

\* Chatloop.clear_messages
clear_messages(cl, keep_system_prompt) ==
    [cl EXCEPT !.system_prompt = default_sysprompt,
               !.responses = << >>,
               !.messages = IF keep_system_prompt THEN <<Msg("system", default_sysprompt)>> ELSE << >>,
               !.original_messages = IF keep_system_prompt THEN <<Msg("system", default_sysprompt)>>
                                     ELSE << >>]

\* Chatloop.clear_caches
clear_caches(cl) == [cl EXCEPT !.search_cache = << >>, !.visit_cache = << >>]

\* an export with the two histories in each other's place
save_messages_swapped(cl) == <<magic_tag, cl.original_messages, cl.messages, cl.responses>>

\* Chatloop.save_messages: the record that is exported
save_messages(cl) == <<magic_tag, cl.messages, cl.original_messages, cl.responses>>

\* Chatloop.load_messages on a record object: the three assignments happen
\* one after the other, an element that is missing raises IndexError
load_messages(cl, message_list) ==
    IF Len(message_list) = 0 THEN Raised(cl)
    ELSE IF message_list[1] # magic_tag THEN Outcome(cl, PyList(cl.messages))
    ELSE IF Len(message_list) < 2 THEN Raised(cl)
    ELSE IF Len(message_list) < 3
    THEN Raised([cl EXCEPT !.messages = message_list[2]])
    ELSE IF Len(message_list) < 4
    THEN Raised([cl EXCEPT !.messages = message_list[2], !.original_messages = message_list[3]])
    ELSE Outcome([cl EXCEPT !.messages = message_list[2],
                            !.original_messages = message_list[3],
                            !.responses = message_list[4]],
                 PyList(message_list[2]))

\* ------------------------------------------------------------------------
\* History converters
\* ------------------------------------------------------------------------

Has(turn, key) == \E k \in 1..Len(turn) : turn[k][1] = key

Get(turn, key) == turn[CHOOSE k \in 1..Len(turn) : turn[k][1] = key][2]

\* msgs[idx]["role"] = role on a list of dicts (idx counted from 1)
SetRole(msgs, idx, role) ==
    [msgs EXCEPT ![idx] = IF "role" \in DOMAIN @ THEN [@ EXCEPT !.role = role]
                          ELSE [k \in DOMAIN @ \cup {"role"} |-> IF k = "role" THEN role ELSE @[k]]]

\* merges what two consecutive calls did to the outside world
Then(before, after) ==
    [after EXCEPT !.crawls = before.crawls \o @,
                  !.resolves = before.resolves \o @,
                  !.requests = before.requests + @]

\* the "system" part of one turn of convert_external_chat_history
external_system(cl, turn) ==
    IF Has(turn, "system")
    THEN [cl EXCEPT !.system_prompt = Get(turn, "system"),
                    !.messages = Append(@, Msg("system", Get(turn, "system"))),
                    !.original_messages = Append(@, Msg("system", Get(turn, "system")))]
    ELSE cl

\* the "assistant" part of one turn; reply is turn["assistant"]
external_assistant(cl, turn, reply) ==
    LET cl1 == [cl EXCEPT !.responses = Append(@, <<None, reply>>)]
        cl2 == process_response(cl1, reply, TRUE)
    IN  IF ~Has(turn, "user") THEN Raised(cl1)
        ELSE Outcome([cl2 EXCEPT !.messages = SetRole(@, Len(@), "assistant"),
                                 !.original_messages = SetRole(@, Len(@), "assistant"),
                                 !.round_number = @ + 1],
                     PyTrue)

\* the "user" part of one turn after its api_chat_once, whose outcome is u,
\* then its "assistant" part; n and m are the lengths of the two histories
external_user_done(u, n, m, turn, is_last) ==
    IF u.raised THEN u
    ELSE IF u.ret = None /\ is_last
    THEN IF n < 2 THEN [u EXCEPT !.raised = TRUE, !.ret = Fault]
         ELSE IF m < 2
         THEN [u EXCEPT !.raised = TRUE, !.ret = Fault,
                        !.cl.messages = SetRole(@, n - 1, "user")]
         ELSE IF Len(u.cl.responses) = 0
         THEN [u EXCEPT !.raised = TRUE, !.ret = Fault,
                        !.cl.messages = SetRole(@, n - 1, "user"),
                        !.cl.original_messages = SetRole(@, m - 1, "user")]
         ELSE Then(u, external_assistant(
                         [u.cl EXCEPT !.messages = SetRole(@, n - 1, "user"),
                                      !.original_messages = SetRole(@, m - 1, "user")],
                         turn, u.cl.responses[Len(u.cl.responses)][2]))
    ELSE IF n = 0 THEN [u EXCEPT !.raised = TRUE, !.ret = Fault]
    ELSE IF m = 0
    THEN [u EXCEPT !.raised = TRUE, !.ret = Fault, !.cl.messages = SetRole(@, n, "user")]
    ELSE IF Has(turn, "assistant")
    THEN Then(u, external_assistant([u.cl EXCEPT !.messages = SetRole(@, n, "user"),
                                                 !.original_messages = SetRole(@, m, "user")],
                                    turn, Get(turn, "assistant")))
    ELSE [u EXCEPT !.cl = [u.cl EXCEPT !.messages = SetRole(@, n, "user"),
                                       !.original_messages = SetRole(@, m, "user")]]

\* the lengths of the histories of an outcome
measured(u, turn, is_last) ==
    external_user_done(u, Len(u.cl.messages), Len(u.cl.original_messages), turn, is_last)

\* the "user" part of one turn, then its "assistant" part
external_user(cl, turn, is_last, env) ==
    measured(api_chat_once(cl, Get(turn, "user"), FALSE, TRUE, is_last, env), turn, is_last)

\* one turn of convert_external_chat_history on the session cl1
external_turn(cl1, turn, is_last, env) ==
    IF Has(turn, "user") THEN external_user(cl1, turn, is_last, env)
    ELSE IF Has(turn, "assistant")
    THEN external_assistant(cl1, turn, Get(turn, "assistant"))
    ELSE Outcome(cl1, PyTrue)

RECURSIVE external_turns(_, _, _, _)
external_turns(o, history, i, env) ==
    IF o.raised \/ i > Len(history) THEN o
    ELSE external_turns(
             Then(o, external_turn(external_system(o.cl, history[i]), history[i],
                                   i = Len(history), env)),
             history, i + 1, env)

\* Chatloop.convert_external_chat_history
convert_external_chat_history(cl, standard_external_history, env) ==
    IF Len(standard_external_history) = 0 THEN Outcome(cl, [type |-> "bool", val |-> FALSE])
    ELSE external_turns(Outcome(clear_messages(cl, FALSE), PyTrue),
                        standard_external_history, 1, env)

\* st with its outcome failed on the session c
Fail(st, c) == [st EXCEPT !.o = [@ EXCEPT !.cl = c, !.raised = TRUE, !.ret = Fault]]

\* a "system" turn of convert_openai_chat_history: cl1 is the session with
\* the placeholders appended
openai_system(st, cl1, turn, idx) ==
    IF idx > Len(cl1.messages) THEN Fail(st, cl1)
    ELSE IF idx > Len(cl1.original_messages)
    THEN Fail(st, [cl1 EXCEPT !.messages[idx] = Msg("system", turn.content)])
    ELSE [st EXCEPT !.o.cl = [cl1 EXCEPT !.messages[idx] = Msg("system", turn.content),
                                         !.original_messages[idx] = Msg("system", turn.content)]]

\* a "user" turn after its api_chat_once, whose outcome merged with the
\* earlier ones is u
openai_user(st, u, idx, is_last) ==
    IF u.raised THEN [st EXCEPT !.o = u]
    ELSE IF idx > Len(u.cl.messages) THEN Fail(st, u.cl)
    ELSE IF idx > Len(u.cl.original_messages)
    THEN Fail(st, [u.cl EXCEPT !.messages = SetRole(@, idx, "user")])
    ELSE IF "content" \notin DOMAIN u.cl.messages[idx]
    THEN Fail(st, [u.cl EXCEPT !.messages = SetRole(@, idx, "user"),
                               !.original_messages = SetRole(@, idx, "user")])
    ELSE IF u.ret = None /\ is_last
    THEN [st EXCEPT !.o = [u EXCEPT !.cl = [u.cl EXCEPT !.messages = SetRole(@, idx, "user"),
                                                        !.original_messages = SetRole(@, idx, "user"),
                                                        !.round_number = @ + 1]],
                    !.offset = @ + 1]
    ELSE [st EXCEPT !.o = [u EXCEPT !.cl = [u.cl EXCEPT !.messages = SetRole(@, idx, "user"),
                                                        !.original_messages = SetRole(@, idx, "user")]]]

\* an "assistant" turn: cl1 is the session with the reply recorded
openai_assistant(st, cl1, idx) ==
    IF idx > Len(cl1.messages) THEN Fail(st, cl1)
    ELSE IF idx > Len(cl1.original_messages)
    THEN Fail(st, [cl1 EXCEPT !.messages = SetRole(@, idx, "assistant")])
    ELSE [st EXCEPT !.o.cl = [cl1 EXCEPT !.messages = SetRole(@, idx, "assistant"),
                                         !.original_messages = SetRole(@, idx, "assistant"),
                                         !.round_number = @ + 1]]

\* one turn of convert_openai_chat_history; st carries the Outcome so far and
\* the local `offset`; idx is i + offset counted from 1
openai_turn(st, turn, i, is_last, env) ==
    IF turn.role = "system"
    THEN openai_system(st, [st.o.cl EXCEPT !.system_prompt = turn.content,
                                           !.messages = Append(@, << >>),
                                           !.original_messages = Append(@, << >>)],
                       turn, i + st.offset)
    ELSE IF turn.role = "user"
    THEN openai_user(st, Then(st.o, api_chat_once(st.o.cl, turn.content, FALSE, TRUE, is_last, env)),
                     i + st.offset, is_last)
    ELSE IF turn.role = "assistant"
    THEN openai_assistant(st, process_response(
                                  [st.o.cl EXCEPT !.responses = Append(@, <<None, turn.content>>)],
                                  turn.content, TRUE),
                          i + st.offset)
    ELSE st

RECURSIVE openai_turns(_, _, _, _)
openai_turns(st, turns, i, env) ==
    IF st.o.raised \/ i > Len(turns) THEN st.o
    ELSE openai_turns(openai_turn(st, turns[i], i, i = Len(turns), env), turns, i + 1, env)

\* Chatloop.convert_openai_chat_history on the "messages" of a request body
convert_openai_chat_history(cl, turns, env) ==
    LET o == openai_turns([o |-> Outcome(clear_messages(cl, FALSE), PyTrue), offset |-> 0],
                          turns, 1, env)
    IN  IF o.raised THEN o ELSE [o EXCEPT !.ret = PyList(o.cl.messages)]

\* ------------------------------------------------------------------------
\* The chat window (ChatWidget) and its worker threads
\* ------------------------------------------------------------------------

\* ChatWidget.__init__: the fields of the asynchronous send path. started and
\* calling hold the user_text of every Chatloop_GenerateWorker thread that
\* has been started and of every one that is inside api_chat_once; signals
\* is the queue of worker signals the event loop has still to deliver
ChatWidget_init ==
    [sending_pending_reply |-> FALSE,
     conversation_turns    |-> << >>,
     started               |-> << >>,
     calling               |-> << >>,
     signals               |-> << >>]

Turn(user_text) == [user |-> user_text, assistant |-> FALSE, assistant_html |-> FALSE]

\* a send that starts a worker whether or not a reply is pending
process_sending_unguarded(w, user_text) ==
    IF Strip(user_text) = "" THEN w
    ELSE [w EXCEPT !.sending_pending_reply = TRUE,
                   !.conversation_turns = Append(@, Turn(Strip(user_text))),
                   !.started = Append(@, Strip(user_text))]

\* ChatWidget.process_sending on the asynchronous path, with the text taken
\* from the input box or from the regenerate buffer
process_sending(w, user_text) ==
    IF Strip(user_text) = "" THEN w
    ELSE IF w.sending_pending_reply THEN w
    ELSE [w EXCEPT !.sending_pending_reply = TRUE,
                   !.conversation_turns = Append(@, Turn(Strip(user_text))),
                   !.started = Append(@, Strip(user_text))]

\* ChatWidget.regenerate_response: the window's part; the backend's part is
\* clear_lastround
regenerate_response(w) ==
    process_sending([w EXCEPT !.conversation_turns = SubSeq(@, 1, Len(@) - 1)],
                    w.conversation_turns[Len(w.conversation_turns)].user)

\* ChatWidget.clear_lastround and ChatWidget.clear_conversation: the window's
\* part; the backend's part is clear_lastround and clear_messages
ChatWidget_clear_lastround(w) ==
    [w EXCEPT !.conversation_turns = SubSeq(@, 1, Len(@) - 1)]

ChatWidget_clear_conversation(w) == [w EXCEPT !.conversation_turns = << >>]

\* ChatWidget.on_first_call_done; with no turn left the slot raises and
\* changes nothing
on_first_call_done(w) ==
    IF w.conversation_turns = << >> THEN w
    ELSE [w EXCEPT !.conversation_turns[Len(w.conversation_turns)].assistant_html = TRUE]

\* ChatWidget.on_final_result_ready; the slot raises before it releases the
\* hold when no turn is left (IndexError) or the turn has no placeholder
\* (KeyError of pop)
on_final_result_ready(w) ==
    IF w.conversation_turns = << >> THEN w
    ELSE IF ~w.conversation_turns[Len(w.conversation_turns)].assistant_html
    THEN [w EXCEPT !.conversation_turns[Len(w.conversation_turns)].assistant = TRUE]
    ELSE [w EXCEPT !.conversation_turns[Len(w.conversation_turns)].assistant = TRUE,
                   !.conversation_turns[Len(w.conversation_turns)].assistant_html = FALSE,
                   !.sending_pending_reply = FALSE]

\* s without its i-th element
Without(s, i) == SubSeq(s, 1, i - 1) \o SubSeq(s, i + 1, Len(s))

\* Chatloop_GenerateWorker.run of the i-th started thread up to the call of
\* api_chat_once
worker_begin(w, i) ==
    [w EXCEPT !.started = Without(@, i), !.calling = Append(@, w.started[i]),
              !.signals = Append(@, "first_call_done")]

\* Chatloop_GenerateWorker.run after api_chat_once with outcome o: the final
\* signal is emitted unless the call raised or there is no response record
\* to read, in which case the thread ends with the fault
worker_end(w, i, o) ==
    [w EXCEPT !.calling = Without(@, i),
              !.signals = IF o.raised \/ o.cl.responses = << >> THEN @
                          ELSE Append(@, "final_result_ready")]

\* ------------------------------------------------------------------------
\* Bounds and the inputs the model draws from
\* ------------------------------------------------------------------------

MaxRounds == 3

Call(id, name) ==
    [id |-> id, type |-> "function", function |-> [name |-> name, arguments |-> "{}"]]

PlainReply == [tool_calls |-> None, content |-> "hi"]

OneCall == [tool_calls |-> PyList(<<Call("c1", "local_file_opener")>>), content |-> ""]

FollowUp == [tool_calls |-> None, content |-> "done"]

\* a follow-up answer that itself asks for an invocation
FollowUpWithCalls ==
    [tool_calls |-> PyList(<<Call("c9", "local_file_opener")>>), content |-> "more"]

TwoCalls ==
    [tool_calls |-> PyList(<<Call("c1", "local_file_opener"), Call("c2", "local_file_opener")>>),
     content |-> ""]

\* invocations of a tool the registry does not hold: alone, last, first
UnknownCall == [tool_calls |-> PyList(<<Call("c1", "nope")>>), content |-> ""]

KnownThenUnknown ==
    [tool_calls |-> PyList(<<Call("c1", "local_file_opener"), Call("c2", "nope")>>),
     content |-> ""]

UnknownThenKnown ==
    [tool_calls |-> PyList(<<Call("c1", "nope"), Call("c2", "local_file_opener")>>),
     content |-> ""]

ManyCalls == {TwoCalls, UnknownCall, KnownThenUnknown, UnknownThenKnown}

\* what local_file_opener returns: on success a result with a direct response
WithResponse ==
    PyDict(<< <<"status", PyStr("success")>>, <<"response", PyStr("File 'a.txt' has been opened!")>> >>)

WithoutResponse ==
    PyDict(<< <<"status", PyStr("error")>>, <<"message", PyStr("File Opener error: x")>> >>)

Completions == {PlainReply, OneCall, Fault}

ToolResults == {WithResponse, WithoutResponse, Fault}

Contents == {PyStr("doc"), PyStr("")}

Crawls == {PyList(<<"page">>), PyList(<< >>)}

\* an environment in which no collaborator is reached or every one answers
Calm ==
    [content |-> PyStr("doc"), crawl |-> PyList(<<"page">>), storage |-> None,
     selected |-> PyStr("row"), first |-> PlainReply, second |-> FollowUp,
     results |-> <<WithoutResponse>>]

TextInputs == {"hello"}

\* commands that edit the session
SessionInputs == {"\\delete", "\\deleteall", "\\toolcall"}

ControlInputs == SessionInputs \cup {"\\syntax", "\\quit", "\\insert a \\insert b \\insert c"}

\* a file, a directory, a URL, and an address that resolves to nothing
VisitInputs == {"\\visit a.txt", "\\visit docs", "\\visit http://x.org", "\\visit nowhere"}

SearchInputs == {"\\search foo \\search bar"}

\* searches in the bare form: a query, and no query at all
BareSearchInputs == {"\\search foo", "\\search"}

StorageInputs == {"\\connect foo", "\\insert k", "\\locate p", "\\insert k \\insert v",
                  "\\query delete from t \\query p"}

\* updates of one key with two contents
UpdateInputs == {"\\update K \\update old", "\\update K \\update new"}

\* batches for SQLiteParser.insert, by name: a batch whose second row has
\* the key the updates store, a batch whose second record lacks a column
Batches ==
    << <<"a,K,b", <<Record("a", "1"), Record("K", "dup"), Record("b", "2")>> >>,
       <<"a,short", <<Record("a", "1"), << <<"key", "b">>, <<"content", "2">> >> >> >> >>

\* bodies of a transaction scope, by name: the records they insert one after
\* the other, and whether the body then raises
Scopes ==
    << <<"a,b", [records |-> <<Record("a", "x"), Record("b", "y")>>, raises |-> FALSE]>>,
       <<"b,raise", [records |-> <<Record("b", "y")>>, raises |-> TRUE]>>,
       <<"b,K", [records |-> <<Record("b", "y"), Record("K", "dup")>>, raises |-> FALSE]>> >>

\* commands that reach the crawler, the directory resolver and the storage file
OutageInputs == {"\\search foo \\search bar", "\\visit docs", "\\locate p \\locate t"}

\* inputs of every shape for the classifier: plain text (trimmed or not, with
\* an escape, with a token that is not at the start), commands in their bare
\* and delimited form, in upper case, with the token once or thrice
ClassifyInputs ==
    TextInputs \cup SearchInputs
    \cup { " hi ", "a\\\\\\\\b", "please \\delete", "x \\search y", "\\deleted", "\\Quit",
           "\\delete", "\\toolcall", "\\search foo", "\\SEARCH foo \\SEARCH bar",
           "\\\\search foo \\\\search bar", "\\connect foo", "\\insert k", "\\locate p",
           "\\insert k \\insert v", "\\insert a \\insert b \\insert c" }

\* commands sent from the chat window: a control command and quit
CommandTexts == {"\\toolcall", "\\quit"}

\* lines typed at the console of api_chat_loop
ConsoleLines ==
    {"hello", " \\quit ", "\\QUIT", "\\toolcall", "\\insert a \\insert b \\insert c",
     "\\locate p \\locate t"}

\* what the outside world answers in a pass of api_chat_loop: everything
\* works, the completion service fails, the tool handler fails, the
\* collaborators of the classifier fail
LoopEnvs ==
    {Calm, [Calm EXCEPT !.first = Fault],
     [Calm EXCEPT !.first = OneCall, !.results = <<Fault>>],
     [Calm EXCEPT !.crawl = Fault, !.content = Fault, !.storage = Fault]}

Sys == Msg("system", default_sysprompt)

\* record objects an import may be handed besides the exported one
ForeignRecords ==
    { << >>,
      <<"other", <<Sys>>, <<Sys>>, << >> >>,
      <<magic_tag, <<Sys, Msg("user", "x")>> >>,
      <<magic_tag, <<Sys, Msg("user", "x"), Msg("assistant", "y")>>, <<Sys>>, << >> >> }

ExternalHistories ==
    { << << <<"system", "S">>, <<"user", "hello">>, <<"assistant", "hi">> >> >>,
      << << <<"user", "hello">>, <<"assistant", "hi">> >>, << <<"user", "\\toolcall">> >> >> }

OpenAIHistories ==
    { << [role |-> "system", content |-> "S"], [role |-> "user", content |-> "hello"] >>,
      << [role |-> "user", content |-> "hello"], [role |-> "assistant", content |-> "hi"],
         [role |-> "user", content |-> "more"] >> }

\* ------------------------------------------------------------------------
\* The storage collaborator with its connections: ConnectionPool,
\* SQLiteClient, TransactionManager on one database file
\* ------------------------------------------------------------------------

\* ConnectionPool.__init__: the default of pool_size
pool_size == 5

\* the largest pool the storage is run with
MaxPool == 2

\* the keys of the rows the statements write
PoolKeys == {"a", "b"}

\* a connection: whether a transaction is open on it (in_transaction),
\* whether that transaction has written (it holds the write lock of the
\* file), and the rows it sees then
Connection == [in_transaction |-> FALSE, wrote |-> FALSE, rows |-> {}]

\* SQLiteClient.__init__: a pool of n connections on a file whose table
\* exists and is empty. idle is the queue of the pool, held the connections
\* taken out of it (the innermost scope first), lost the connections nobody
\* will return, rows the committed rows of the table
SQLiteClient_init(n) ==
    [pool_size |-> n, idle |-> [i \in 1..n |-> Connection], held |-> << >>,
     lost |-> << >>, rows |-> {}]

\* the result of a call on the client: the client afterwards, the rows a
\* read fetched, the exception that left the call ("" for none)
Served(p, fetched) == [p |-> p, fetched |-> fetched, fault |-> ""]

Faulted(p, fault) == [p |-> p, fetched |-> {}, fault |-> fault]

\* the statements the storage is run with, by their text
Statements ==
    << <<"SELECT key FROM t", [kind |-> "select", key |-> ""]>>,
       <<"select key from t", [kind |-> "select", key |-> ""]>>,
       <<"INSERT INTO t (key) VALUES ('a')", [kind |-> "insert", key |-> "a"]>>,
       <<"INSERT INTO t (key) VALUES ('b')", [kind |-> "insert", key |-> "b"]>>,
       <<"DELETE FROM t WHERE key = 'a'", [kind |-> "delete", key |-> "a"]>>,
       <<"UPDATE t SET content = 'x' WHERE key = 'a'", [kind |-> "update", key |-> "a"]>> >>

\* what SQLite makes of the text of a statement
sql(query) == Item(Statements, query)

\* ConnectionPool.get_connection: the head of the queue; PoolError when the
\* queue stays empty for the timeout
get_connection(p) ==
    IF p.idle = << >> THEN Faulted(p, "PoolError")
    ELSE Served([p EXCEPT !.idle = Tail(@), !.held = <<Head(p.idle)>> \o @], {})

\* ConnectionPool.return_connection of the connection held innermost: to
\* the tail of the queue, closed when the queue is full
return_connection(p) ==
    IF Len(p.idle) < p.pool_size
    THEN [p EXCEPT !.idle = Append(@, Head(p.held)), !.held = Tail(@)]
    ELSE [p EXCEPT !.held = Tail(@)]

\* the rows the connection held innermost sees
View(p) == IF Head(p.held).wrote THEN Head(p.held).rows ELSE p.rows

\* another connection holds the write lock of the file
Busy(p) ==
    \E i \in 1..Len(p.idle \o p.lost \o Tail(p.held)) : (p.idle \o p.lost \o Tail(p.held))[i].wrote

\* the rows after a statement that writes
Written(rows, stmt) ==
    IF stmt.kind = "insert" THEN rows \cup {stmt.key}
    ELSE IF stmt.kind = "delete" THEN rows \ {stmt.key}
    ELSE rows

\* cursor.execute on the connection held innermost. A statement that writes
\* opens a transaction on a connection that has none (the sqlite3 module
\* begins one before INSERT, UPDATE, DELETE); it fails while another
\* connection holds the write lock ("database is locked") and on a key that
\* is stored ("UNIQUE constraint failed")
cursor_execute(p, stmt) ==
    IF stmt.kind = "select" THEN Served(p, View(p))
    ELSE IF Busy(p)
    THEN Faulted([p EXCEPT !.held[1].in_transaction = TRUE], "OperationalError")
    ELSE IF stmt.kind = "insert" /\ stmt.key \in View(p)
    THEN Faulted([p EXCEPT !.held[1] = [in_transaction |-> TRUE, wrote |-> TRUE, rows |-> View(p)]],
                 "IntegrityError")
    ELSE Served([p EXCEPT !.held[1] = [in_transaction |-> TRUE, wrote |-> TRUE,
                                        rows |-> Written(View(p), stmt)]], {})

\* conn.commit() on the connection held innermost
conn_commit(p) ==
    [p EXCEPT !.rows = View(p), !.held[1] = Connection]

\* conn.rollback() on the connection held innermost
conn_rollback(p) ==
    [p EXCEPT !.held[1] = Connection]

\* SQLiteClient.execute: the statement runs on a connection of the pool, is
\* committed only when commit is set, rolled back when it fails; the
\* connection goes back to the pool either way
SQLiteClient_execute(p, query, commit) ==
    IF get_connection(p).fault # "" THEN Faulted(p, "PoolError")
    ELSE IF cursor_execute(get_connection(p).p, sql(query)).fault # ""
    THEN Faulted(return_connection(conn_rollback(cursor_execute(get_connection(p).p, sql(query)).p)),
                 "QueryExecutionError")
    ELSE IF commit
    THEN Served(return_connection(conn_commit(cursor_execute(get_connection(p).p, sql(query)).p)), {})
    ELSE Served(return_connection(cursor_execute(get_connection(p).p, sql(query)).p), {})

\* SQLiteClient.fetch_all: the rows the connection that serves the call sees
SQLiteClient_fetch_all(p, query) ==
    IF get_connection(p).fault # "" THEN Faulted(p, "PoolError")
    ELSE IF cursor_execute(get_connection(p).p, sql(query)).fault # ""
    THEN Faulted(return_connection(cursor_execute(get_connection(p).p, sql(query)).p),
                 "QueryExecutionError")
    ELSE Served(return_connection(cursor_execute(get_connection(p).p, sql(query)).p),
                cursor_execute(get_connection(p).p, sql(query)).fetched)

\* TransactionManager.__enter__: a connection of the pool and BEGIN on it.
\* BEGIN on a connection whose transaction is open raises ("cannot start a
\* transaction within a transaction"); __exit__ is not run then and nobody
\* returns the connection
TransactionManager_enter(p) ==
    IF get_connection(p).fault # "" THEN Faulted(p, "PoolError")
    ELSE IF Head(get_connection(p).p.held).in_transaction
    THEN Faulted([get_connection(p).p EXCEPT !.held = Tail(@),
                                             !.lost = Append(@, Head(get_connection(p).p.held))],
                 "OperationalError")
    ELSE Served([get_connection(p).p EXCEPT !.held[1].in_transaction = TRUE], {})

\* TransactionManager.execute of a statement in the scope held innermost
TransactionManager_run(p, stmt) ==
    IF cursor_execute(p, stmt).fault # ""
    THEN Faulted(cursor_execute(p, stmt).p, "QueryExecutionError")
    ELSE cursor_execute(p, stmt)

\* TransactionManager.__exit__ of the scope held innermost: rollback when an
\* exception leaves the body, commit otherwise, and the connection goes
\* back to the pool
TransactionManager_leave(p, exc_type) ==
    IF exc_type THEN return_connection(conn_rollback(p))
    ELSE return_connection(conn_commit(p))

\* the body of a scope that executes the statements from the i-th on and
\* lets the fault of a statement leave it
RECURSIVE pooled_body(_, _, _)
pooled_body(p, stmts, i) ==
    IF i > Len(stmts) THEN Served(p, {})
    ELSE IF TransactionManager_run(p, stmts[i]).fault # ""
    THEN TransactionManager_run(p, stmts[i])
    ELSE pooled_body(TransactionManager_run(p, stmts[i]).p, stmts, i + 1)

\* `with client.transaction() as tx:` around the statements; raises says
\* whether the body raises after them
pooled_scope(p, stmts, raises) ==
    IF TransactionManager_enter(p).fault # "" THEN TransactionManager_enter(p)
    ELSE IF pooled_body(TransactionManager_enter(p).p, stmts, 1).fault # ""
    THEN Faulted(TransactionManager_leave(pooled_body(TransactionManager_enter(p).p, stmts, 1).p, TRUE),
                 "QueryExecutionError")
    ELSE IF raises
    THEN Faulted(TransactionManager_leave(pooled_body(TransactionManager_enter(p).p, stmts, 1).p, TRUE),
                 "ValueError")
    ELSE Served(TransactionManager_leave(pooled_body(TransactionManager_enter(p).p, stmts, 1).p, FALSE), {})

\* SQLiteParser.insert of one record followed by [0]: a scope of its own
\* around the INSERT, whose fault is logged; the scope commits, and nothing
\* stored makes [0] raise IndexError
pooled_insert(p, key) ==
    IF TransactionManager_enter(p).fault # "" THEN TransactionManager_enter(p)
    ELSE IF TransactionManager_run(TransactionManager_enter(p).p, [kind |-> "insert", key |-> key]).fault # ""
    THEN Faulted(TransactionManager_leave(
                     TransactionManager_run(TransactionManager_enter(p).p,
                                            [kind |-> "insert", key |-> key]).p, FALSE),
                 "IndexError")
    ELSE Served(TransactionManager_leave(
                    TransactionManager_run(TransactionManager_enter(p).p,
                                           [kind |-> "insert", key |-> key]).p, FALSE), {})

\* the body of the scope of SQLiteParser.update for one record with a text
\* key: the key is looked up among the positions of the fetched rows, so
\* the record goes to insert; with rows fetched the insert is tried once
\* more when it raises, with none fetched (KeyError) it is tried once
pooled_update_body(p, pkvalues, key) ==
    IF pooled_insert(p, key).fault = "" THEN pooled_insert(p, key)
    ELSE IF pkvalues = {} THEN pooled_insert(p, key)
    ELSE pooled_insert(pooled_insert(p, key).p, key)

\* SQLiteParser.update of one record, coerce set: the keys are fetched,
\* then the scope of the update is open around the insert
pooled_update(p, key) ==
    IF SQLiteClient_fetch_all(p, "SELECT key FROM t").fault # ""
    THEN SQLiteClient_fetch_all(p, "SELECT key FROM t")
    ELSE IF TransactionManager_enter(SQLiteClient_fetch_all(p, "SELECT key FROM t").p).fault # ""
    THEN TransactionManager_enter(SQLiteClient_fetch_all(p, "SELECT key FROM t").p)
    ELSE [ p |-> TransactionManager_leave(
                     pooled_update_body(
                         TransactionManager_enter(SQLiteClient_fetch_all(p, "SELECT key FROM t").p).p,
                         SQLiteClient_fetch_all(p, "SELECT key FROM t").fetched, key).p,
                     pooled_update_body(
                         TransactionManager_enter(SQLiteClient_fetch_all(p, "SELECT key FROM t").p).p,
                         SQLiteClient_fetch_all(p, "SELECT key FROM t").fetched, key).fault # ""),
           fetched |-> {},
           fault |-> pooled_update_body(
                         TransactionManager_enter(SQLiteClient_fetch_all(p, "SELECT key FROM t").p).p,
                         SQLiteClient_fetch_all(p, "SELECT key FROM t").fetched, key).fault ]

\* Chatloop.handle_query on the client: a statement that reads is fetched,
\* any other is executed with the default of commit; QueryExecutionError is
\* swallowed
handle_query(p, query) ==
    IF StartsWith(Upper(Strip(query)), "SELECT")
    THEN IF SQLiteClient_fetch_all(p, Strip(query)).fault = "QueryExecutionError"
         THEN Served(SQLiteClient_fetch_all(p, Strip(query)).p, {})
         ELSE SQLiteClient_fetch_all(p, Strip(query))
    ELSE IF SQLiteClient_execute(p, Strip(query), FALSE).fault = "QueryExecutionError"
         THEN Served(SQLiteClient_execute(p, Strip(query), FALSE).p, {})
         ELSE SQLiteClient_execute(p, Strip(query), FALSE)

\* ------------------------------------------------------------------------
\* The state machine
\* ------------------------------------------------------------------------

VARIABLES
    cl,        \* the Chatloop object
    exported,  \* the record last exported and the triple it was taken from
    last,      \* the call made last: its name, its argument, what the outside
               \* world answered and what the call was seen to do
    widget,    \* the chat window in front of the session
    loop,      \* where the call of api_chat_loop stands: not made, in its
               \* while statement, returned, or left by an exception
    client     \* the SQLiteClient of the session: its pool, its connections
               \* and the rows of the file

vars == <<cl, exported, last, widget, loop, client>>

NoCall ==
    [op |-> "init", arg |-> "", env |-> Calm, ret |-> None, raised |-> FALSE,
     crawls |-> << >>, resolves |-> << >>, requests |-> 0, repeat |-> FALSE]

Triple(c) == <<c.messages, c.original_messages, c.responses>>

Init ==
    /\ cl = Chatloop_init
    /\ exported = [record |-> << >>, from |-> << >>]
    /\ last = NoCall
    /\ widget = ChatWidget_init
    /\ loop = "idle"
    /\ client = SQLiteClient_init(pool_size)

\* what a call with outcome o leaves in the session and in the record of
\* the last call
Logged(op, arg, env, o) ==
    /\ cl' = o.cl
    /\ last' = [op |-> op, arg |-> arg, env |-> env,
                ret |-> IF o.raised THEN Fault ELSE o.ret,
                raised |-> o.raised, crawls |-> o.crawls, resolves |-> o.resolves,
                requests |-> o.requests,
                repeat |-> (last.op = op /\ last.arg = arg)]
    /\ UNCHANGED client

\* the bookkeeping of a call made outside api_chat_loop
Recorded(op, arg, env, o) ==
    /\ Logged(op, arg, env, o)
    /\ UNCHANGED loop

\* a call made on the session directly, the chat window not involved
Called(op, arg, env, o) ==
    /\ Recorded(op, arg, env, o)
    /\ UNCHANGED widget

\* a live round: api_chat_once(text, chat=True) as the chat window calls it
Round(input, env) ==
    Called("api_chat_once", input, env, api_chat_once(cl, input, TRUE, FALSE, FALSE, env))

\* a round on plain text; the completion service answers or fails
ChatRound ==
    \E input \in TextInputs, first \in {PlainReply, Fault} :
        /\ cl.round_number < MaxRounds
        /\ Round(input, [Calm EXCEPT !.first = first])
        /\ UNCHANGED exported

\* a round in which the completion service answers with one tool invocation
ToolRound ==
    \E input \in TextInputs, result \in ToolResults :
        /\ cl.round_number < MaxRounds
        /\ Round(input, [Calm EXCEPT !.first = OneCall, !.results = <<result>>])
        /\ UNCHANGED exported

\* a round in which the completion service answers with several invocations,
\* or with invocations of an unknown tool; the follow-up request, if one is
\* made, is answered with text or with further invocations
ToolsRound ==
    \E input \in TextInputs, first \in ManyCalls, r1 \in {WithResponse, WithoutResponse},
       r2 \in {WithResponse, WithoutResponse}, second \in {FollowUp, FollowUpWithCalls} :
        /\ cl.round_number < MaxRounds
        /\ Round(input, [Calm EXCEPT !.first = first, !.results = <<r1, r2>>, !.second = second])
        /\ UNCHANGED exported

\* a round with one invocation whose follow-up asks for further invocations
FollowUpRound ==
    \E input \in TextInputs, result \in {WithResponse, WithoutResponse} :
        /\ cl.round_number < MaxRounds
        /\ Round(input, [Calm EXCEPT !.first = OneCall, !.results = <<result>>,
                                     !.second = FollowUpWithCalls])
        /\ UNCHANGED exported

SessionRound ==
    \E input \in SessionInputs :
        /\ cl.round_number < MaxRounds
        /\ Round(input, Calm)
        /\ UNCHANGED exported

ControlRound ==
    \E input \in ControlInputs :
        /\ cl.round_number < MaxRounds
        /\ Round(input, Calm)
        /\ UNCHANGED exported

VisitRound ==
    \E input \in VisitInputs, content \in Contents :
        /\ cl.round_number < MaxRounds
        /\ Round(input, [Calm EXCEPT !.content = content])
        /\ UNCHANGED exported

SearchRound ==
    \E input \in SearchInputs, crawl \in Crawls :
        /\ cl.round_number < MaxRounds
        /\ Round(input, [Calm EXCEPT !.crawl = crawl])
        /\ UNCHANGED exported

\* a round on a bare search: the query may be empty
BareSearchRound ==
    \E input \in BareSearchInputs, crawl \in Crawls :
        /\ cl.round_number < MaxRounds
        /\ Round(input, [Calm EXCEPT !.crawl = crawl])
        /\ UNCHANGED exported

StorageRound ==
    \E input \in StorageInputs, storage \in {None, Fault} :
        /\ cl.round_number < MaxRounds
        /\ Round(input, [Calm EXCEPT !.storage = storage])
        /\ UNCHANGED exported

\* a round whose command reaches a collaborator that raises
OutageRound ==
    \E input \in OutageInputs :
        /\ cl.round_number < MaxRounds
        /\ Round(input, [Calm EXCEPT !.crawl = Fault, !.content = Fault, !.storage = Fault])
        /\ UNCHANGED exported

\* \connect: the default table is created if the file does not hold it
ConnectRound ==
    /\ cl.round_number < MaxRounds
    /\ Round("\\connect", Calm)
    /\ UNCHANGED exported

UpdateRound ==
    \E input \in UpdateInputs :
        /\ cl.round_number < MaxRounds
        /\ Round(input, Calm)
        /\ UNCHANGED exported

\* SQLiteParser.insert of a batch into the current table
BatchInsert ==
    \E b \in 1..Len(Batches) :
        /\ Called("insert", Batches[b][1], Calm,
                  [Outcome([cl EXCEPT !.db = DictSet(@, cl.db_path,
                                SQLiteParser_insert(Tables(cl), cl.default_table,
                                                    Batches[b][2]).tables)], None)
                      EXCEPT !.raised = SQLiteParser_insert(Tables(cl), cl.default_table,
                                                            Batches[b][2]).raised])
        /\ UNCHANGED exported

\* a transaction scope on the current table: `with client.transaction() as
\* tx:` around tx.execute calls nobody catches
TransactionScope ==
    \E b \in 1..Len(Scopes) :
        /\ HasKey(Tables(cl), cl.default_table)
        /\ Called("transaction", Scopes[b][1], Calm,
                  scoped(cl, scope_body(Item(Tables(cl), cl.default_table), Scopes[b][2].records, 1,
                                        Scopes[b][2].raises)))
        /\ UNCHANGED exported

\* handle_special_commands alone, on any input
Classify ==
    \E input \in ClassifyInputs, crawl \in Crawls :
        /\ Called("handle_special_commands", input, [Calm EXCEPT !.crawl = crawl],
                  handle_special_commands(cl, input, [Calm EXCEPT !.crawl = crawl]))
        /\ UNCHANGED exported

ClearLastround ==
    /\ Called("clear_lastround", "", Calm, Outcome(clear_lastround(cl), None))
    /\ UNCHANGED exported

ClearMessages ==
    \E keep_system_prompt \in BOOLEAN :
        /\ Called("clear_messages", IF keep_system_prompt THEN "True" ELSE "False", Calm,
                  Outcome(clear_messages(cl, keep_system_prompt), None))
        /\ UNCHANGED exported

ClearCaches ==
    /\ Called("clear_caches", "", Calm, Outcome(clear_caches(cl), None))
    /\ UNCHANGED exported

SaveMessages ==
    /\ exported' = [record |-> save_messages(cl), from |-> Triple(cl)]
    /\ Called("save_messages", "", Calm, Outcome(cl, None))

LoadExported ==
    /\ exported.record # << >>
    /\ Called("load_messages", "exported", Calm, load_messages(cl, exported.record))
    /\ UNCHANGED exported

LoadForeign ==
    \E record \in ForeignRecords :
        /\ Called("load_messages", "foreign", Calm, load_messages(cl, record))
        /\ UNCHANGED exported

ConvertExternal ==
    \E history \in ExternalHistories :
        /\ cl.round_number < MaxRounds
        /\ Called("convert_external_chat_history", "", Calm,
                  convert_external_chat_history(cl, history, Calm))
        /\ UNCHANGED exported

ConvertOpenAI ==
    \E turns \in OpenAIHistories :
        /\ cl.round_number < MaxRounds
        /\ Called("convert_openai_chat_history", "", Calm,
                  convert_openai_chat_history(cl, turns, Calm))
        /\ UNCHANGED exported

\* the send button of the chat window
ProcessSending ==
    \E user_text \in TextInputs \cup {" "} :
        /\ cl.round_number < MaxRounds
        /\ widget' = process_sending(widget, user_text)
        /\ Recorded("process_sending", user_text, Calm, Outcome(cl, None))
        /\ UNCHANGED exported

\* the send button with a command in the input box
SendCommand ==
    \E user_text \in CommandTexts :
        /\ cl.round_number < MaxRounds
        /\ Len(widget.conversation_turns) < MaxRounds
        /\ widget' = process_sending(widget, user_text)
        /\ Recorded("process_sending", user_text, Calm, Outcome(cl, None))
        /\ UNCHANGED exported

\* the regenerate button: the last turn is taken back and sent again
RegenerateResponse ==
    /\ cl.round_number < MaxRounds
    /\ widget.conversation_turns # << >>
    /\ widget' = regenerate_response(widget)
    /\ Recorded("regenerate_response", "", Calm, Outcome(clear_lastround(cl), None))
    /\ UNCHANGED exported

\* the button that rolls back one round
ClearLastroundClicked ==
    /\ widget.conversation_turns # << >>
    /\ widget' = ChatWidget_clear_lastround(widget)
    /\ Recorded("ChatWidget.clear_lastround", "", Calm, Outcome(clear_lastround(cl), None))
    /\ UNCHANGED exported

\* the button that clears the conversation
ClearConversationClicked ==
    /\ widget' = ChatWidget_clear_conversation(widget)
    /\ Recorded("ChatWidget.clear_conversation", "", Calm, Outcome(clear_messages(cl, TRUE), None))
    /\ UNCHANGED exported

\* a started worker thread emits its first signal and enters api_chat_once
WorkerBegin ==
    \E i \in 1..Len(widget.started) :
        /\ widget' = worker_begin(widget, i)
        /\ Recorded("run", widget.started[i], Calm, Outcome(cl, None))
        /\ UNCHANGED exported

\* api_chat_once returns to the worker thread that called it
WorkerEnd ==
    \E i \in 1..Len(widget.calling), first \in {PlainReply, Fault} :
        /\ widget' = worker_end(widget, i,
                                api_chat_once(cl, widget.calling[i], TRUE, FALSE, FALSE,
                                              [Calm EXCEPT !.first = first]))
        /\ Recorded("api_chat_once", widget.calling[i], [Calm EXCEPT !.first = first],
                    api_chat_once(cl, widget.calling[i], TRUE, FALSE, FALSE,
                                  [Calm EXCEPT !.first = first]))
        /\ UNCHANGED exported

\* the event loop delivers the first signal of a worker
OnFirstCallDone ==
    /\ widget.signals # << >>
    /\ Head(widget.signals) = "first_call_done"
    /\ widget' = [on_first_call_done(widget) EXCEPT !.signals = Tail(@)]
    /\ Recorded("on_first_call_done", "", Calm, Outcome(cl, None))
    /\ UNCHANGED exported

\* the event loop delivers the final signal of a worker
OnFinalResultReady ==
    /\ widget.signals # << >>
    /\ Head(widget.signals) = "final_result_ready"
    /\ widget' = [on_final_result_ready(widget) EXCEPT !.signals = Tail(@)]
    /\ Recorded("on_final_result_ready", "", Calm, Outcome(cl, None))
    /\ UNCHANGED exported

\* Chatloop.api_chat_loop up to its while statement
ApiChatLoop ==
    /\ loop = "idle"
    /\ loop' = "running"
    /\ Logged("api_chat_loop", "", Calm, Outcome([cl EXCEPT !.ongoing = TRUE], None))
    /\ UNCHANGED <<exported, widget>>

\* one pass of the while statement with the session ongoing: a line is read
\* from the console and api_chat_once runs on it; an exception that leaves
\* api_chat_once leaves api_chat_loop
LoopRound ==
    \E line \in ConsoleLines, env \in LoopEnvs :
        /\ loop = "running"
        /\ cl.ongoing
        /\ cl.round_number < MaxRounds
        /\ Logged("api_chat_once", Strip(line), env, api_chat_once_console(cl, line, env))
        /\ loop' = IF api_chat_once_console(cl, line, env).raised THEN "raised" ELSE "running"
        /\ UNCHANGED <<exported, widget>>

\* one pass of the while statement with the session not ongoing: break
LoopBreak ==
    /\ loop = "running"
    /\ ~cl.ongoing
    /\ loop' = "returned"
    /\ UNCHANGED <<cl, exported, last, widget, client>>

\* the session: rounds, clears, conversions and imports of foreign records
Next ==
    \/ ChatRound
    \/ ToolRound
    \/ SessionRound
    \/ ClearLastround
    \/ ClearMessages
    \/ LoadForeign
    \/ ConvertExternal
    \/ ConvertOpenAI

Spec == Init /\ [][Next]_vars

\* live rounds on plain text, on control commands and on storage commands
NextCommands ==
    \/ ChatRound
    \/ ControlRound
    \/ StorageRound

SpecCommands == Init /\ [][NextCommands]_vars

\* the caches: visits and searches
NextCache ==
    \/ VisitRound
    \/ SearchRound
    \/ ClearCaches

SpecCache == Init /\ [][NextCache]_vars

\* the caches under every key: visits, delimited and bare searches, the
\* empty query included
NextKeys ==
    \/ VisitRound
    \/ SearchRound
    \/ BareSearchRound
    \/ ClearCaches

SpecKeys == Init /\ [][NextKeys]_vars

\* export and import of sessions built by rounds of every kind
NextPersist ==
    \/ ChatRound
    \/ ToolRound
    \/ SearchRound
    \/ SessionRound
    \/ SaveMessages
    \/ LoadExported

SpecPersist == Init /\ [][NextPersist]_vars

\* rounds in which tools are invoked, once tool calling is switched on
NextTools ==
    \/ SessionRound
    \/ ToolRound
    \/ ToolsRound
    \/ FollowUpRound

SpecTools == Init /\ [][NextTools]_vars

\* rounds in which the completion service, a tool handler, the crawler, the
\* resolver or the storage file may raise
NextFaults ==
    \/ ChatRound
    \/ SessionRound
    \/ ToolRound
    \/ OutageRound

SpecFaults == Init /\ [][NextFaults]_vars

\* the storage: the table is connected, rows are upserted by command and
\* inserted in batches, scopes are run
NextStorage ==
    \/ ConnectRound
    \/ UpdateRound
    \/ BatchInsert
    \/ TransactionScope

SpecStorage == Init /\ [][NextStorage]_vars

\* the chat window: sends, regenerations, worker threads and their signals
NextWidget ==
    \/ ProcessSending
    \/ RegenerateResponse
    \/ WorkerBegin
    \/ WorkerEnd
    \/ OnFirstCallDone
    \/ OnFinalResultReady

SpecWidget == Init /\ [][NextWidget]_vars

\* the console loop: api_chat_loop from its call to its end
NextLoop ==
    \/ ApiChatLoop
    \/ LoopRound
    \/ LoopBreak

SpecLoop == Init /\ [][NextLoop]_vars

\* the chat window with all its buttons in use while rounds are in flight
NextButtons ==
    \/ ProcessSending
    \/ RegenerateResponse
    \/ ClearLastroundClicked
    \/ ClearConversationClicked
    \/ WorkerBegin
    \/ WorkerEnd
    \/ OnFirstCallDone
    \/ OnFinalResultReady

SpecButtons == Init /\ [][NextButtons]_vars

\* the chat window from a send to its reply: text and commands are sent, the
\* worker threads run and their signals are delivered
NextReply ==
    \/ ProcessSending
    \/ SendCommand
    \/ WorkerBegin
    \/ WorkerEnd
    \/ OnFirstCallDone
    \/ OnFinalResultReady

SpecReply == Init /\ [][NextReply]_vars

\* what WorkerEnd does to the window: a thread leaves api_chat_once and ends,
\* with or without its final signal. A step of NextReply shortens `calling`
\* exactly when it is a step of WorkerEnd, and WorkerEnd is enabled exactly
\* when `calling` is not empty
WorkerReturns ==
    \E i \in 1..Len(widget.calling), signalled \in BOOLEAN :
        widget' = [widget EXCEPT !.calling = Without(@, i),
                                 !.signals = IF signalled THEN Append(@, "final_result_ready")
                                             ELSE @]

\* a started thread runs to its end and the event loop of the window
\* delivers every signal queued to it
SpecReplyFair ==
    /\ SpecReply
    /\ WF_vars(WorkerBegin)
    /\ WF_widget(WorkerReturns)
    /\ WF_vars(OnFirstCallDone)
    /\ WF_vars(OnFinalResultReady)

\* the classifier as a function of its input
NextClassify == Classify

SpecClassify == Init /\ [][NextClassify]_vars

\* ------------------------------------------------------------------------
\* The storage with its connections
\* ------------------------------------------------------------------------

\* the statements that write, by their text
ExecuteTexts ==
    {"INSERT INTO t (key) VALUES ('a')", "INSERT INTO t (key) VALUES ('b')",
     "DELETE FROM t WHERE key = 'a'", "UPDATE t SET content = 'x' WHERE key = 'a'"}

\* the statements handed to \query
QueryTexts == ExecuteTexts \cup {"select key from t"}

\* the bodies of the scopes that are run
PoolScopes ==
    << <<"a", <<[kind |-> "insert", key |-> "a"]>> >>,
       <<"a b", <<[kind |-> "insert", key |-> "a"], [kind |-> "insert", key |-> "b"]>> >>,
       <<"-a", <<[kind |-> "delete", key |-> "a"]>> >> >>

\* what a call on the client leaves in the client and in the record of the
\* last call
Answered(op, arg, r) ==
    /\ client' = r.p
    /\ last' = [NoCall EXCEPT !.op = op, !.arg = arg,
                              !.ret = [type |-> "served", fault |-> r.fault, fetched |-> r.fetched],
                              !.raised = (r.fault # "")]
    /\ UNCHANGED <<cl, exported, widget, loop>>

\* SQLiteClient.execute(query, (), commit=True)
ExecuteCommitted ==
    \E query \in ExecuteTexts :
        Answered("execute(commit=True)", query, SQLiteClient_execute(client, query, TRUE))

\* SQLiteClient.execute(query, ())
ExecuteStatement ==
    \E query \in ExecuteTexts :
        Answered("execute", query, SQLiteClient_execute(client, query, FALSE))

\* SQLiteClient.fetch_all
FetchAll ==
    Answered("fetch_all", "SELECT key FROM t", SQLiteClient_fetch_all(client, "SELECT key FROM t"))

\* a transaction scope that exits normally or by a fault
PooledScope ==
    \E b \in 1..Len(PoolScopes), raises \in BOOLEAN :
        Answered(IF raises THEN "transaction (raises)" ELSE "transaction", PoolScopes[b][1],
                 pooled_scope(client, PoolScopes[b][2], raises))

\* SQLiteParser.update of one record
PooledUpdate ==
    \E key \in PoolKeys :
        Answered("update", key, pooled_update(client, key))

\* Chatloop.handle_query as the query arm calls it
HandleQuery ==
    \E query \in QueryTexts :
        Answered("handle_query", query, handle_query(client, query))

InitPool ==
    /\ cl = Chatloop_init
    /\ exported = [record |-> << >>, from |-> << >>]
    /\ last = NoCall
    /\ widget = ChatWidget_init
    /\ loop = "idle"
    /\ \E n \in 1..MaxPool : client = SQLiteClient_init(n)

NextPool ==
    \/ ExecuteCommitted
    \/ ExecuteStatement
    \/ FetchAll
    \/ PooledScope
    \/ PooledUpdate
    \/ HandleQuery

SpecPool == InitPool /\ [][NextPool]_vars

\* ------------------------------------------------------------------------
\* Properties
\* ------------------------------------------------------------------------

\* C1: whenever a round may start, after any rounds, clears, conversions and
\* imports, the canonical and the display history have equal length.
C1_HistoriesEqualLength == Len(cl.messages) = Len(cl.original_messages)

\* C2: an input that matches no recognized command prefix is returned by
\* handle_special_commands unchanged.
C2_ReturnedUnchanged ==
    LET trimmed == Lower(Strip(last.arg))
        words == {"quit", "syntax", "delete", "deleteall", "toolcall", "visit", "search",
                  "connect", "locate", "insert", "update", "select", "query"}
        recognized == \E w \in words : \/ StartsWith(trimmed, "\\" \o w)
                                        \/ StartsWith(trimmed, "\\\\" \o w)
    IN  (last.op = "handle_special_commands" /\ ~recognized) => last.ret = PyStr(last.arg)

\* C2, as the classifier does it: an input that matches no recognized command
\* prefix is returned trimmed and with every run of four backslashes made
\* two, nothing is crawled or resolved for it, and it is returned unchanged
\* when it is already trimmed and holds no such run.
C2_ReturnedNormalised ==
    LET trimmed == Lower(Strip(last.arg))
        words == {"quit", "syntax", "delete", "deleteall", "toolcall", "visit", "search",
                  "connect", "locate", "insert", "update", "select", "query"}
        recognized == \E w \in words : \/ StartsWith(trimmed, "\\" \o w)
                                        \/ StartsWith(trimmed, "\\\\" \o w)
        clean == Strip(last.arg) = last.arg /\ Find(last.arg, "\\\\\\\\", 0) < 0
    IN  (last.op = "handle_special_commands" /\ ~recognized)
        => /\ last.ret = PyStr(Replace(Strip(last.arg), "\\\\\\\\", "\\\\"))
           /\ last.crawls = << >> /\ last.resolves = << >>
           /\ clean => last.ret = PyStr(last.arg)

C2_TrimmedInput ==
    last.op = "handle_special_commands" /\ last.arg = " hi " /\ last.ret = PyStr("hi")

\* C3: from a session whose histories both hold at least one message,
\* \delete and \deleteall leave exactly one message in each history, and that
\* message is the system message.
C3_OnlySystemLeft ==
    [][ LET role(m) == IF "role" \in DOMAIN m THEN m.role ELSE ""
        IN  ( /\ last'.op = "api_chat_once"
              /\ last'.arg \in {"\\delete", "\\deleteall"}
              /\ Len(cl.messages) >= 1 /\ Len(cl.original_messages) >= 1 )
            => /\ Len(cl'.messages) = 1 /\ Len(cl'.original_messages) = 1
               /\ role(cl'.messages[1]) = "system"
               /\ role(cl'.original_messages[1]) = "system" ]_vars

\* C4: a live round whose input classifies to a control descriptor (the error
\* descriptor included) issues no completion request and increments
\* round_number by exactly 1; from the canonical history [system] the input
\* \delete yields the delete descriptor and leaves both histories at length 1.
C4_ControlRound ==
    [][ LET h == handle_special_commands(cl, last'.arg, last'.env)
        IN  /\ (last'.op = "api_chat_once" /\ ~h.raised /\ h.ret.type = "dict")
               => /\ last'.requests = 0
                  /\ cl'.round_number = cl.round_number + 1
            /\ (last'.op = "api_chat_once" /\ last'.arg = "\\delete" /\ Len(cl.messages) = 1)
               => /\ h.ret = PyDict(<< <<"\\usage", PyStr("\\delete")>> >>)
                  /\ Len(cl'.messages) = 1 ]_vars

\* C5: importing an exported record yields the triple (canonical history,
\* display history, responses) that was exported.
C5_RoundTrip ==
    (last.op = "load_messages" /\ last.arg = "exported")
    => ~last.raised /\ Triple(cl) = exported.from

C5_Reimported ==
    /\ last.op = "load_messages" /\ last.arg = "exported"
    /\ exported.from[1] # exported.from[2]
    /\ Len(exported.from[3]) > 0
    /\ Triple(cl) = exported.from

C7_BeginsWithPrompt ==
    [][ ( /\ last'.op = "handle_special_commands"
          /\ last'.arg = "\\search foo \\search bar"
          /\ cl.search_cache = << >> )
        => /\ last'.crawls = <<"foo">>
           /\ last'.ret.type = "str"
           /\ StartsWith(last'.ret.val, "bar") ]_vars

\* C7, as the classifier does it: exactly one crawl with the query "foo", the
\* crawl result is cached under "foo", and the text returned begins with the
\* third segment as it was typed, " bar" with its leading space, followed by
\* the query and "? ".
C7_BeginsWithSegment ==
    [][ ( /\ last'.op = "handle_special_commands"
          /\ last'.arg = "\\search foo \\search bar"
          /\ cl.search_cache = << >> )
        => /\ last'.crawls = <<"foo">>
           /\ DictGet(cl'.search_cache, "foo") = last'.env.crawl
           /\ last'.ret.type = "str"
           /\ StartsWith(last'.ret.val, " barfoo? ") ]_vars

C7_Searched ==
    /\ last.op = "handle_special_commands" /\ last.arg = "\\search foo \\search bar"
    /\ last.crawls = <<"foo">>
    /\ last.ret = PyStr(" barfoo? ###Document No1\n\npage")

C9_MalformedRound ==
    [][ LET h == handle_special_commands(cl, last'.arg, last'.env)
        IN  ( /\ last'.op = "api_chat_once"
              /\ last'.arg = "\\insert a \\insert b \\insert c" )
            => /\ ~h.raised /\ h.ret = PyDict(<< >>)
               /\ ~last'.raised
               /\ Len(cl'.responses) = Len(cl.responses) + 1
               /\ cl'.round_number = cl.round_number + 1 ]_vars

\* C10: with tool calling enabled, a round in which the completion carries
\* one invocation of a registered tool whose handler returns a result with
\* a "response" field issues exactly one completion request, and its final
\* content - the assistant message at the end of both histories and the
\* response recorded - is the value of that field.
C10_DirectResponse ==
    LET value == DictGet(WithResponse.val, "response").val
    IN  ( /\ last.op = "api_chat_once" /\ last.arg \in TextInputs
          /\ cl.use_tools
          /\ last.env.first = OneCall /\ last.env.results = <<WithResponse>> )
        => /\ last.requests = 1
           /\ cl.messages[Len(cl.messages)] = Msg("assistant", value)
           /\ cl.original_messages[Len(cl.original_messages)] = Msg("assistant", value)
           /\ cl.responses[Len(cl.responses)] = <<None, value>>

C10_Answered ==
    /\ last.op = "api_chat_once" /\ last.arg \in TextInputs
    /\ cl.use_tools
    /\ last.env.first = OneCall /\ last.env.results = <<WithResponse>>
    /\ last.requests = 1
    /\ last.ret = PyTrue

\* the direct response of a tool result that carries one
DirectResponse == DictGet(WithResponse.val, "response").val

\* C11: with tool calling on, when the completion carries two invocations of
\* registered tools and the result of any one of them, the first as well as
\* the last, carries a direct response, that value is the final content of
\* the round and no second completion request is made.
C11_AnyDirectResponse ==
    [][ ( /\ last'.op = "api_chat_once"
          /\ cl.use_tools
          /\ last'.env.first = TwoCalls
          /\ \E i \in 1..2 : last'.env.results[i] = WithResponse )
        => /\ last'.requests = 1
           /\ last'.ret = PyTrue
           /\ cl'.responses[Len(cl'.responses)] = <<None, DirectResponse>>
           /\ cl'.messages[Len(cl'.messages)] = Msg("assistant", DirectResponse) ]_vars

\* C12: with tool calling on, when the completion carries invocations of
\* registered tools and no result carries a direct response, exactly one
\* follow-up completion request is made and its content is the output of the
\* round, appended as the final assistant message to both histories; so also
\* when the follow-up answer itself carries invocations, which are not run.
C12_FollowUpIsFinal ==
    [][ ( /\ last'.op = "api_chat_once"
          /\ cl.use_tools
          /\ last'.env.first \in {OneCall, TwoCalls}
          /\ \A i \in 1..Len(last'.env.first.tool_calls.val) :
                 last'.env.results[i] = WithoutResponse
          /\ last'.env.second \in {FollowUp, FollowUpWithCalls} )
        => /\ last'.requests = 2
           /\ ~last'.raised
           /\ cl'.messages[Len(cl'.messages)] = Msg("assistant", last'.env.second.content)
           /\ cl'.original_messages[Len(cl'.original_messages)]
                  = Msg("assistant", last'.env.second.content)
           /\ Len(cl'.messages)
                  = Len(cl.messages) + 3 + Len(last'.env.first.tool_calls.val) ]_vars

\* the invocations of registered tools among those of a completion
Registered(tool_calls) ==
    {i \in 1..Len(tool_calls) : tool_calls[i].function.name \in tool_dict}

\* the tool-role messages of a history
ToolMessages(msgs) == {i \in 1..Len(msgs) : msgs[i].role = "tool"}

\* C13: an invocation naming a tool absent from the registry is skipped in
\* silence wherever it stands among the invocations, also last or alone: no
\* tool-role message is appended for it, no fault is raised, and the round
\* goes on to the follow-up completion request and completes normally.
C13_UnknownToolSkipped ==
    [][ ( /\ last'.op = "api_chat_once"
          /\ cl.use_tools
          /\ last'.env.first \in {UnknownCall, KnownThenUnknown, UnknownThenKnown}
          /\ last'.env.results = <<WithoutResponse, WithoutResponse>>
          /\ last'.env.second = FollowUp )
        => /\ ~last'.raised
           /\ Cardinality(ToolMessages(cl'.messages))
                  = Cardinality(ToolMessages(cl.messages))
                    + Cardinality(Registered(last'.env.first.tool_calls.val))
           /\ last'.requests = 2
           /\ last'.ret = PyTrue
           /\ cl'.messages[Len(cl'.messages)] = Msg("assistant", FollowUp.content)
           /\ cl'.round_number = cl.round_number + 1 ]_vars

\* a round that completed: a chat or tool round that returned True, or a
\* control round whose descriptor names its command (h is the classification)
Completed(h, l) ==
    /\ l.op = "api_chat_once"
    /\ ~l.raised
    /\ \/ l.ret = PyTrue
       \/ /\ ~h.raised
          /\ h.ret.type = "dict"
          /\ DictGet(h.ret.val, "\\usage") # None

\* C14 (as claimed): from a state in which the number of response records
\* equals round_number, every successfully completed round (chat, tool,
\* control) and every clear operation (clear_messages, clear_lastround)
\* leads to a state in which it does again.
C14_ResponsesEqualRounds ==
    [][ ( /\ Len(cl.responses) = cl.round_number
          /\ \/ Completed(handle_special_commands(cl, last'.arg, last'.env), last')
             \/ last'.op \in {"clear_messages", "clear_lastround"} )
        => Len(cl'.responses) = cl'.round_number ]_vars

\* C14 (amended): every completed round (chat, tool, control) appends one
\* response record and adds 1 to round_number, so the two are equal after
\* completed rounds alone; clear_messages empties the response records,
\* clear_lastround drops the last one if there is one, and both leave
\* round_number as it was.
C14_RoundsCountedClearsNot ==
    [][ /\ Completed(handle_special_commands(cl, last'.arg, last'.env), last')
            => /\ cl'.round_number = cl.round_number + 1
               /\ Len(cl'.responses) = Len(cl.responses) + 1
        /\ last'.op = "clear_messages"
            => /\ cl'.responses = << >>
               /\ cl'.round_number = cl.round_number
        /\ last'.op = "clear_lastround"
            => /\ cl'.responses = SubSeq(cl.responses, 1,
                                         IF Len(cl.responses) > 0 THEN Len(cl.responses) - 1 ELSE 0)
               /\ cl'.round_number = cl.round_number ]_vars

\* a clear operation has left fewer response records than rounds counted
C14_ClearedAfterRounds ==
    /\ last.op \in {"clear_messages", "clear_lastround"}
    /\ cl.round_number > 0
    /\ Len(cl.responses) < cl.round_number

\* the worker threads of the window that have not yet returned from
\* api_chat_once
InFlight(w) == Len(w.started) + Len(w.calling)

\* C15: within one chat window at most one api_chat_once is in flight, and a
\* send request made while a reply is pending is rejected and not queued: it
\* starts no worker, adds no turn and leaves the session as it was.
C15_OneRoundInFlight ==
    [][ /\ InFlight(widget') <= 1
        /\ ( /\ last'.op \in {"process_sending", "regenerate_response"}
             /\ widget.sending_pending_reply )
           => /\ widget'.started = widget.started
              /\ widget'.calling = widget.calling
              /\ widget'.signals = widget.signals
              /\ Len(widget'.conversation_turns) <= Len(widget.conversation_turns)
              /\ widget'.sending_pending_reply ]_vars

\* a send request is made while the worker is inside api_chat_once
C15_SendWhilePending ==
    /\ last.op = "process_sending"
    /\ last.arg = "hello"
    /\ widget.sending_pending_reply
    /\ widget.calling = <<"hello">>

\* the records an import may be handed whose magic tag is absent or differs
Untagged == {record \in ForeignRecords : record = << >> \/ record[1] # magic_tag}

\* C16: in whatever state the session is, importing a record object of any
\* length, the empty one included, whose magic tag is absent or differs from
\* the marker raises no fault and leaves both histories and the responses as
\* they were.
C16_ForeignRecordIgnored ==
    \A record \in Untagged :
        /\ ~load_messages(cl, record).raised
        /\ Triple(load_messages(cl, record).cl) = Triple(cl)

\* C17: a fault raised by an external call during a round (the completion
\* service, a tool handler, the crawler during \search, the resolver during
\* \visit, the storage file during \locate) does not leave api_chat_once, and
\* round_number advances by 1 for that round.
C17_FaultsStayInside ==
    [][ ( /\ last'.op = "api_chat_once"
          /\ \/ last'.env.first = Fault /\ last'.requests = 1
             \/ /\ cl.use_tools
                /\ last'.env.first = OneCall
                /\ last'.env.results = <<Fault>>
             \/ last'.env.crawl = Fault /\ last'.crawls # << >>
             \/ last'.env.content = Fault /\ last'.resolves # << >>
             \/ last'.env.storage = Fault /\ last'.arg = "\\locate p \\locate t" )
        => /\ ~last'.raised
           /\ cl'.round_number = cl.round_number + 1 ]_vars

\* the rows of the current table of the session, none if the file does not
\* hold the table
Rows(c) == IF HasKey(Tables(c), c.default_table) THEN Item(Tables(c), c.default_table) ELSE << >>

\* the rows stored under a key
RowsOf(c, key) == {i \in 1..Len(Rows(c)) : Rows(c)[i][1] = key}

\* C18: `\update K \update CONTENT` on a connected table is an upsert: the
\* current table afterwards holds exactly one row for K, with content
\* CONTENT, whether K was absent before (inserted) or present with another
\* content (replaced); the update descriptor carrying the key is returned and
\* no fault surfaces.
C18_UpdateIsUpsert ==
    [][ \A content \in {"old", "new"} :
          ( /\ last'.op = "api_chat_once"
            /\ last'.arg = "\\update K \\update " \o content
            /\ HasKey(Tables(cl), cl.default_table) )
          => /\ ~last'.raised
             /\ handle_special_commands(cl, last'.arg, last'.env).ret
                    = PyDict(<< <<"\\usage", PyStr("\\update")>>, <<"key", PyStr(" K ")>> >>)
             /\ Cardinality(RowsOf(cl', "K")) = 1
             /\ \A i \in RowsOf(cl', "K") : Rows(cl')[i][2] = content ]_vars

\* the keys stored in the current table
StoredKeys(c) == {Rows(c)[i][1] : i \in 1..Len(Rows(c))}

\* the content stored under a key the table holds
ContentOf(c, key) == Rows(c)[CHOOSE i \in RowsOf(c, key) : TRUE][2]

\* the keys of a sequence of full records
KeysOf(records) == {Item(records[i], "key") : i \in 1..Len(records)}

\* a transaction scope on the current table commits all the rows of its body
\* if the body exits normally and none if the body exits by a fault, be it
\* the fault of a statement (a key already stored) or one raised after them
ScopeCommitsOrRollsBack ==
    \A b \in 1..Len(Scopes) :
        ( last'.op = "transaction" /\ last'.arg = Scopes[b][1] )
        => IF Scopes[b][2].raises \/ KeysOf(Scopes[b][2].records) \cap StoredKeys(cl) # {}
           THEN last'.raised /\ Rows(cl') = Rows(cl)
           ELSE /\ ~last'.raised
                /\ StoredKeys(cl') = StoredKeys(cl) \cup KeysOf(Scopes[b][2].records)
                /\ \A key \in StoredKeys(cl) : ContentOf(cl', key) = ContentOf(cl, key)
                /\ \A i \in 1..Len(Scopes[b][2].records) :
                       ContentOf(cl', Item(Scopes[b][2].records[i], "key"))
                           = Item(Scopes[b][2].records[i], "content")

\* a batch of full records goes to a table the parser knows
Insertable(c, records) ==
    /\ HasKey(Tables(c), c.default_table)
    /\ \A i \in 1..Len(records), k \in 1..Len(Columns) : HasKey(records[i], Columns[k])

\* C19 (as claimed): a transaction scope commits its statements if and only
\* if its body exits normally and rolls all of them back if it exits by a
\* fault; and a batch insert in which one row fails leaves none of the rows
\* of the batch stored.
C19_FailedBatchStoresNone ==
    [][ /\ ScopeCommitsOrRollsBack
        /\ \A b \in 1..Len(Batches) :
             ( /\ last'.op = "insert" /\ last'.arg = Batches[b][1]
               /\ Insertable(cl, Batches[b][2])
               /\ KeysOf(Batches[b][2]) \cap StoredKeys(cl) # {} )
             => Rows(cl') = Rows(cl) ]_vars

\* C19 (amended): a transaction scope commits its statements if and only if
\* its body exits normally and rolls all of them back if it exits by a fault.
\* The body of a batch insert catches the fault of a row, so it exits
\* normally: the rows whose key was not yet stored are committed, a row whose
\* key is stored is left out and the stored row keeps its content, and no
\* fault is raised. Only a batch that is refused before the scope is entered
\* (a record lacking a column, an unknown table) raises and stores nothing.
C19_FailedRowIsLeftOut ==
    [][ /\ ScopeCommitsOrRollsBack
        /\ \A b \in 1..Len(Batches) :
             ( last'.op = "insert" /\ last'.arg = Batches[b][1] )
             => IF Insertable(cl, Batches[b][2])
                THEN /\ ~last'.raised
                     /\ StoredKeys(cl') = StoredKeys(cl) \cup KeysOf(Batches[b][2])
                     /\ \A key \in StoredKeys(cl) : ContentOf(cl', key) = ContentOf(cl, key)
                     /\ \A i \in 1..Len(Batches[b][2]) :
                            Item(Batches[b][2][i], "key") \notin StoredKeys(cl)
                            => ContentOf(cl', Item(Batches[b][2][i], "key"))
                                   = Item(Batches[b][2][i], "content")
                ELSE last'.raised /\ Rows(cl') = Rows(cl) ]_vars

\* a batch was inserted whose row for K failed: K keeps its content, the
\* other rows of the batch are stored
C19_BatchWithFailedRow ==
    /\ last.op = "insert"
    /\ last.arg = "a,K,b"
    /\ ~last.raised
    /\ StoredKeys(cl) = {"K", "a", "b"}
    /\ ContentOf(cl, "K") = "old"
    /\ ContentOf(cl, "a") = "1"
    /\ ContentOf(cl, "b") = "2"

\* the line typed at the console is a quit command
QuitEntered(arg) == Is(Lower(arg), "quit")

\* C20: api_chat_loop stops if and only if a quit command was entered: a
\* pass on a quit line sets the session to not ongoing and appends to
\* neither history, the loop returns only from a session that is not
\* ongoing, and a pass on any other line, whatever fails in it (a malformed
\* command, the completion service, a tool handler, a collaborator of the
\* classifier), leaves the session ongoing and the loop running.
C20_OnlyQuitStops ==
    [][ /\ ( loop = "running" /\ cl.ongoing /\ last'.op = "api_chat_once" /\ last' # last )
           => IF QuitEntered(last'.arg)
              THEN /\ ~cl'.ongoing
                   /\ loop' = "running"
                   /\ cl'.messages = cl.messages
                   /\ cl'.original_messages = cl.original_messages
              ELSE /\ cl'.ongoing
                   /\ loop' = "running"
        /\ ( loop = "running" /\ loop' = "returned" ) => ~cl.ongoing ]_vars

\* commands paired with the same commands in another letter case of the
\* token: bare forms, delimited forms and single-word commands
CasePairs ==
    { <<"\\quit", "\\QUIT">>, <<"\\toolcall", "\\ToolCall">>,
      <<"\\search foo", "\\Search foo">>, <<"\\visit a.txt", "\\VISIT a.txt">>,
      <<"\\search foo \\search bar", "\\SEARCH foo \\SEARCH bar">>,
      <<"\\visit a.txt \\visit sum", "\\Visit a.txt \\Visit sum">>,
      <<"\\insert k \\insert v", "\\INSERT k \\INSERT v">> }

\* C21: in whatever state the session is, a recognized command, bare or
\* delimited, and the same command with the letter case of its token changed
\* are classified alike: the same value is returned (or a fault raised in
\* both) and the session is left in the same state.
C21_TokenCaseIgnored ==
    \A pair \in CasePairs, crawl \in Crawls :
        /\ handle_special_commands(cl, pair[2], [Calm EXCEPT !.crawl = crawl]).ret
             = handle_special_commands(cl, pair[1], [Calm EXCEPT !.crawl = crawl]).ret
        /\ handle_special_commands(cl, pair[2], [Calm EXCEPT !.crawl = crawl]).raised
             = handle_special_commands(cl, pair[1], [Calm EXCEPT !.crawl = crawl]).raised
        /\ handle_special_commands(cl, pair[2], [Calm EXCEPT !.crawl = crawl]).cl
             = handle_special_commands(cl, pair[1], [Calm EXCEPT !.crawl = crawl]).cl

\* the keys a cache holds
Keys(cache) == {cache[i][1] : i \in 1..Len(cache)}

\* a round on a visit or on a search leaves the entries that the caches held
\* under the keys in held_visits and held_searches as they were, does not
\* call the resolver or the crawler for them, and a visit leaves the search
\* cache, a search the visit cache, as it was
CachesKept(held_visits, held_searches) ==
    last'.op = "api_chat_once"
        => /\ \A key \in held_visits :
                /\ HasKey(cl'.visit_cache, key)
                /\ Item(cl'.visit_cache, key) = Item(cl.visit_cache, key)
                /\ last'.resolves # <<key>>
           /\ \A key \in held_searches :
                /\ HasKey(cl'.search_cache, key)
                /\ Item(cl'.search_cache, key) = Item(cl.search_cache, key)
                /\ last'.crawls # <<key>>
           /\ Starts(Lower(last'.arg), "\\visit") => cl'.search_cache = cl.search_cache
           /\ Starts(Lower(last'.arg), "\\search") => cl'.visit_cache = cl.visit_cache

\* C22: both caches are write-once per key and independent: once a cache
\* holds an entry for a key, the empty string included, no visit or search
\* round changes the entry or calls the collaborator for the key again, a
\* visit leaves the search cache and a search leaves the visit cache as it was.
C22_WriteOncePerKey == [][CachesKept(Keys(cl.visit_cache), Keys(cl.search_cache))]_vars

\* C22 (amended): the same for every key of the visit cache and every
\* non-empty key of the search cache; a search with the empty query is never
\* served from the cache: the crawler is called and the entry is written again.
C22_WriteOncePerNonEmptyKey ==
    [][ /\ CachesKept(Keys(cl.visit_cache), Keys(cl.search_cache) \ {""})
        /\ ( last'.op = "api_chat_once" /\ last'.arg = "\\search" /\ ~last'.raised )
           => /\ last'.crawls = <<"">>
              /\ Item(cl'.search_cache, "") = last'.env.crawl ]_vars

\* the empty query was searched again with the entries of foo still cached
C22_EmptySearchedAgain ==
    /\ last.op = "api_chat_once"
    /\ last.arg = "\\search"
    /\ last.repeat
    /\ last.crawls = <<"">>
    /\ HasKey(cl.search_cache, "foo")

\* the roles of a history, in order
Roles(msgs) == [i \in 1..Len(msgs) |-> IF "role" \in DOMAIN msgs[i] THEN msgs[i].role ELSE ""]

\* the roles of an external transcript, turn by turn: system, user, assistant
RECURSIVE TurnRoles(_, _)
TurnRoles(history, i) ==
    IF i > Len(history) THEN << >>
    ELSE (IF Has(history[i], "system") THEN <<"system">> ELSE << >>)
         \o (IF Has(history[i], "user") THEN <<"user">> ELSE << >>)
         \o (IF Has(history[i], "assistant") THEN <<"assistant">> ELSE << >>)
         \o TurnRoles(history, i + 1)

\* external transcripts whose user turns hold commands
CommandHistories ==
    { << << <<"user", "hello">>, <<"assistant", "hi">> >>,
         << <<"user", "\\toolcall">>, <<"assistant", "t">> >>, << <<"user", "more">> >> >>,
      << << <<"system", "S">>, <<"user", "hello">>, <<"assistant", "hi">> >>,
         << <<"user", "\\delete">>, <<"assistant", "d">> >>, << <<"user", "more">> >> >>,
      << << <<"system", "S">>, <<"user", "hello">>, <<"assistant", "hi">> >>,
         << <<"user", "\\deleteall">>, <<"assistant", "d">> >>, << <<"user", "more">> >> >>,
      << << <<"user", "\\quit">>, <<"assistant", "x">> >>, << <<"user", "hi">> >> >> }

\* the same transcripts in the form of a request body
CommandTranscripts ==
    { << [role |-> "user", content |-> "hello"], [role |-> "assistant", content |-> "hi"],
         [role |-> "user", content |-> "\\toolcall"], [role |-> "assistant", content |-> "t"],
         [role |-> "user", content |-> "more"] >>,
      << [role |-> "system", content |-> "S"],
         [role |-> "user", content |-> "hello"], [role |-> "assistant", content |-> "hi"],
         [role |-> "user", content |-> "\\delete"], [role |-> "assistant", content |-> "d"],
         [role |-> "user", content |-> "more"] >>,
      << [role |-> "system", content |-> "S"],
         [role |-> "user", content |-> "hello"], [role |-> "assistant", content |-> "hi"],
         [role |-> "user", content |-> "\\deleteall"], [role |-> "assistant", content |-> "d"],
         [role |-> "user", content |-> "more"] >>,
      << [role |-> "user", content |-> "\\quit"], [role |-> "assistant", content |-> "x"],
         [role |-> "user", content |-> "hi"] >> }

\* C23: in whatever state the session is, converting a transcript of system,
\* user and assistant turns, command turns included, raises no fault, issues
\* no completion request, and leaves a canonical and a display history whose
\* roles are, in order, those of the transcript.
C23_TranscriptReplayed ==
    /\ \A history \in ExternalHistories \cup CommandHistories :
         /\ ~convert_external_chat_history(cl, history, Calm).raised
         /\ convert_external_chat_history(cl, history, Calm).requests = 0
         /\ Roles(convert_external_chat_history(cl, history, Calm).cl.messages)
              = TurnRoles(history, 1)
         /\ Roles(convert_external_chat_history(cl, history, Calm).cl.original_messages)
              = TurnRoles(history, 1)
    /\ \A turns \in OpenAIHistories \cup CommandTranscripts :
         /\ ~convert_openai_chat_history(cl, turns, Calm).raised
         /\ convert_openai_chat_history(cl, turns, Calm).requests = 0
         /\ Roles(convert_openai_chat_history(cl, turns, Calm).cl.messages)
              = [i \in 1..Len(turns) |-> turns[i].role]
         /\ Roles(convert_openai_chat_history(cl, turns, Calm).cl.original_messages)
              = [i \in 1..Len(turns) |-> turns[i].role]

\* C24: every send accepted by the guard eventually releases it: whenever
\* sending_pending_reply is set, it is false again at some later time,
\* however the round in the background ends.
C24_SendReleased == widget.sending_pending_reply ~> ~widget.sending_pending_reply

\* the calls a user action in the chat window is recorded as
UserActions ==
    {"process_sending", "regenerate_response", "ChatWidget.clear_lastround",
     "ChatWidget.clear_conversation"}

\* C25: while a round is outstanding in the chat window, a second send, a
\* regenerate, a roll back of one round and a clear of the conversation leave
\* the two histories and the responses of the session as they were, and the
\* handler of the final signal of the round does not fail: when the signal is
\* delivered, the hold is released.
C25_RoundUndisturbed ==
    [][ /\ ( InFlight(widget) > 0 /\ last'.op \in UserActions ) => Triple(cl') = Triple(cl)
        /\ ( last'.op = "on_final_result_ready" /\ widget' # widget )
              => ~widget'.sending_pending_reply ]_vars

\* C26: in whatever state the session is, importing a record object either
\* replaces the canonical history, the display history and the responses by
\* the three of the record, or leaves all three as they were; a record with
\* the magic tag and fewer than four elements leaves them as they were.
C26_ImportAllOrNothing ==
    \A record \in ForeignRecords :
        \/ Triple(load_messages(cl, record).cl) = Triple(cl)
        \/ /\ Len(record) >= 4
           /\ Triple(load_messages(cl, record).cl) = <<record[2], record[3], record[4]>>

\* what the outside world answers in a round that completes: a reply, or one
\* tool invocation and the reply that follows it
Completing == {Calm, [Calm EXCEPT !.first = OneCall]}

\* C27: in whatever state the session is, a round that completes (a chat
\* round, a tool round, a control round such as \toolcall: each adds one
\* response record) followed by clear_lastround leaves the canonical history,
\* the display history and the responses as they were before the round.
C27_ClearUndoesRound ==
    \A input \in TextInputs \cup {"\\toolcall"}, env \in Completing :
        ( /\ ~api_chat_once(cl, input, TRUE, FALSE, FALSE, env).raised
          /\ Len(api_chat_once(cl, input, TRUE, FALSE, FALSE, env).cl.responses)
               = Len(cl.responses) + 1 )
        => Triple(clear_lastround(api_chat_once(cl, input, TRUE, FALSE, FALSE, env).cl))
             = Triple(cl)

\* C28: pooled connections are conserved. After any sequence of storage
\* operations (execute, fetch_all, transaction scopes that exit normally or
\* by a fault, update with its nested insert) the pool holds pool_size idle
\* connections, and an update that falls back to insert is not left by
\* PoolError, whatever the size of the pool.
C28_PoolConserved ==
    /\ Len(client.idle) = client.pool_size
    /\ last.op = "update" => last.ret.fault # "PoolError"

\* the statements of QueryTexts that write and change the rows they are run
\* on
Changes(p, query) ==
    /\ sql(query).kind \in {"insert", "delete"}
    /\ Written(p.rows, sql(query)) # p.rows

\* C29: the effect of a \query statement that does not read (INSERT,
\* UPDATE, DELETE) is committed before the control descriptor is returned:
\* a read that follows in the session observes the change whichever pooled
\* connection serves it, and the connection that ran the statement is back
\* in the pool with no transaction open.
C29_QueryCommitted ==
    [][ ( /\ last'.op = "handle_query"
          /\ sql(last'.arg).kind # "select"
          /\ ~last'.raised
          /\ \A i \in 1..Len(client.idle) : ~client.idle[i].in_transaction )
        => ( /\ \A i \in 1..Len(client'.idle) : ~client'.idle[i].in_transaction
             /\ Changes(client, last'.arg)
                  => handle_query(client', "select key from t").fetched
                       = Written(client.rows, sql(last'.arg)) ) ]_vars

\* what a conversion is to leave the same: the histories, the responses,
\* the tool-enabled flag and the number of rounds
Restored(c) == <<c.messages, c.original_messages, c.responses, c.use_tools, c.round_number>>

\* a transcript of the chat window whose last turn is no command (the
\* converter leaves such a transcript as it was handed in)
EndsPlain(history) ==
    \/ history[Len(history)][Len(history[Len(history)])][1] = "assistant"
    \/ ~StartsWith(history[Len(history)][Len(history[Len(history)])][2], "\\")

\* C30: converting a transcript is idempotent on the session. Converting
\* the same transcript twice in a row leaves the same canonical history,
\* display history, responses, tool-enabled flag and round_number as
\* converting it once, also when the transcript holds command turns such as
\* \toolcall.
C30_ConvertIdempotent ==
    /\ \A turns \in OpenAIHistories \cup CommandTranscripts :
         ~convert_openai_chat_history(cl, turns, Calm).raised
         => /\ ~convert_openai_chat_history(
                    convert_openai_chat_history(cl, turns, Calm).cl, turns, Calm).raised
            /\ Restored(convert_openai_chat_history(
                            convert_openai_chat_history(cl, turns, Calm).cl, turns, Calm).cl)
                 = Restored(convert_openai_chat_history(cl, turns, Calm).cl)
    /\ \A history \in {h \in ExternalHistories \cup CommandHistories : EndsPlain(h)} :
         ~convert_external_chat_history(cl, history, Calm).raised
         => /\ ~convert_external_chat_history(
                    convert_external_chat_history(cl, history, Calm).cl, history, Calm).raised
            /\ Restored(convert_external_chat_history(
                            convert_external_chat_history(cl, history, Calm).cl, history, Calm).cl)
                 = Restored(convert_external_chat_history(cl, history, Calm).cl)

====
